---- MODULE Spec2Model ----
(***************************************************************************)
(* Model of the forms-for-devs renderer core:                              *)
(*   - validateValue (components/preview/FormRenderer.tsx), the pure       *)
(*     per-field validator, with the JavaScript coercions it relies on     *)
(*     (Number(), RegExp, property access on undefined);                   *)
(*   - FormRenderer, the submit / reset state machine built on             *)
(*     react-hook-form.                                                    *)
(*   - generateJsonSchema and generateReactTsComponent (lib/storage.ts),   *)
(*     the two projections of a form definition, and the component the     *)
(*     generated source describes.                                         *)
(* The specifications share the variables:                                 *)
(*   ValidateSpec  draws one (field, value) pair and applies validateValue *)
(*   Spec          runs the renderer on a form: edit, submit, reset        *)
(*   SchemaSpec    draws a form and projects it to schema and controls     *)
(*   ConsistencySpec draws a (field, value) pair and compares validator,   *)
(*                 schema property and generated control                   *)
(*   SourceSpec    draws id, title, description and derives the component  *)
(*                 name and the embedded text                              *)
(*   ExportSpec    runs the generated component: edit, submit              *)
(*   DeterminismSpec opens the export page several times                   *)
(*   StudioSpec    runs the Studio page: add, update, delete, move,        *)
(*                 toggle, title and description edit, reset               *)
(*   ToastSpec     runs the two toast queues: add, dismiss, timeout        *)
(***************************************************************************)
EXTENDS Integers, Sequences, FiniteSets, TLC

VARIABLES
    vfield,      \* ValidateSpec: the Field handed to validateValue
    vvalue,      \* ValidateSpec: the runtime value handed to validateValue
    vresult,     \* ValidateSpec: Pending, or what validateValue produced
    form,        \* Spec: form.fields, the sequence of Field the renderer was given
    values,      \* Spec: react-hook-form values, keyed by field.name
    errors,      \* Spec: react-hook-form formState.errors, keyed by field.name
    submitted,   \* Spec: useState submitted (Null or the accepted payload)
    isSubmitted, \* Spec: react-hook-form formState.isSubmitted
    last,        \* Spec: record of the last handler that ran (history)
    pin,         \* projector specs: the input drawn (form, field and value, texts)
    pout,        \* projector specs: Pending, or what the projectors produced
    gvalues,     \* ExportSpec: useState values of the generated component
    delivered,   \* ExportSpec: what the onSubmit prop was last called with
    sform,       \* StudioSpec: useState form of StudioPage (the in-memory definition)
    storage,     \* StudioSpec: localStorage under STORAGE_KEY (Null, or the stored text's value)
    expandedFieldId, \* StudioSpec: useState expandedFieldId of StudioPage
    clock,       \* StudioSpec: the instant nowISO() reads
    sop,         \* StudioSpec: record of the last handler that ran (history)
    toasts,      \* ToastSpec: useState toasts of ToastProvider
    timers,      \* ToastSpec: timeouts that addToast scheduled and that have not fired
    idCounter,   \* ToastSpec: idCounter.current of ToastProvider
    store,       \* ToastSpec: store.toasts of use-toast.ts
    storeTimers  \* ToastSpec: timeouts that toast() scheduled and that have not fired

vars == <<vfield, vvalue, vresult, form, values, errors, submitted, isSubmitted, last,
          pin, pout, gvalues, delivered,
          sform, storage, expandedFieldId, clock, sop,
          toasts, timers, idCounter, store, storeTimers>>

\* the variables of the Studio page
studioVars == <<sform, storage, expandedFieldId, clock, sop>>

\* the variables of the two toast queues
toastVars == <<toasts, timers, idCounter, store, storeTimers>>

\* the variables of the projector specifications
projVars == <<pin, pout, gvalues, delivered>>

(***************************************************************************)
(* Bounds                                                                  *)
(***************************************************************************)
\* longest string value (and longest numeric literal) that is enumerated
MaxStrLen == 2
\* rule numbers (minLength, maxLength, min, max) range over 0..MaxRule
MaxRule == 2

(***************************************************************************)
(* JavaScript values                                                       *)
(***************************************************************************)
\* Numbers are fixed-point: n counts units of 1/Scale, so that every decimal
\* literal of at most MaxStrLen characters is represented exactly.
RECURSIVE Pow10(_)
Pow10(k) == IF k = 0 THEN 1 ELSE 10 * Pow10(k - 1)

Scale == Pow10(MaxStrLen)

Undefined == [t |-> "undefined"]
Null == [t |-> "null"]
Bool(b) == [t |-> "boolean", b |-> b]
Str(s) == [t |-> "string", s |-> s]
Num(n) == [t |-> "number", nan |-> FALSE, n |-> n]
NaN == [t |-> "number", nan |-> TRUE, n |-> 0]
\* a whole number k as a JS number
Whole(k) == Num(k * Scale)

\* value == null  (loose equality: null or undefined)
IsNullish(v) == v.t \in {"undefined", "null"}

\* JS truthiness, for the values the rules bag can hold
Truthy(v) ==
    CASE v.t = "undefined" -> FALSE
      [] v.t = "null" -> FALSE
      [] v.t = "boolean" -> v.b
      [] v.t = "string" -> v.s # <<>>
      [] v.t = "number" -> ~v.nan /\ v.n # 0
      [] OTHER -> TRUE

\* characters of runtime string values
Alphabet == {"1", ".", "-", " ", "a"}
Digits == {"1"}
WhiteSpace == {" "}

SeqsUpTo(S, n) == UNION {[1..k -> S] : k \in 0..n}

Strings == SeqsUpTo(Alphabet, MaxStrLen)

(***************************************************************************)
(* Number(value): the coercion validateValue applies to number fields      *)
(***************************************************************************)
RECURSIVE TrimLeft(_)
TrimLeft(s) ==
    IF s # <<>> /\ Head(s) \in WhiteSpace THEN TrimLeft(Tail(s)) ELSE s

RECURSIVE TrimRight(_)
TrimRight(s) ==
    IF s # <<>> /\ s[Len(s)] \in WhiteSpace
    THEN TrimRight(SubSeq(s, 1, Len(s) - 1))
    ELSE s

AllDigits(s) == \A i \in 1..Len(s) : s[i] \in Digits

DigitVal(c) == CASE c = "1" -> 1 [] OTHER -> 0

\* value of a digit string read as a decimal integer
RECURSIVE DecVal(_)
DecVal(s) ==
    IF s = <<>> THEN 0
    ELSE 10 * DecVal(SubSeq(s, 1, Len(s) - 1)) + DigitVal(s[Len(s)])

\* StrUnsignedDecimalLiteral: digits [. digits*] | . digits
UnsignedDecimal(body) ==
    LET dots == {i \in 1..Len(body) : body[i] = "."} IN
    IF dots = {}
    THEN IF body # <<>> /\ AllDigits(body) THEN Num(DecVal(body) * Scale) ELSE NaN
    ELSE IF Cardinality(dots) > 1 THEN NaN
    ELSE LET d == CHOOSE i \in dots : TRUE
             ip == SubSeq(body, 1, d - 1)
             fp == SubSeq(body, d + 1, Len(body))
         IN IF AllDigits(ip) /\ AllDigits(fp) /\ Len(ip) + Len(fp) > 0
            THEN Num(DecVal(ip) * Scale + DecVal(fp) * Pow10(MaxStrLen - Len(fp)))
            ELSE NaN

\* StringToNumber: white space is trimmed, the empty string is 0, an optional
\* sign precedes the decimal literal, anything else is NaN
StringToNumber(s) ==
    LET body == TrimRight(TrimLeft(s)) IN
    IF body = <<>> THEN Num(0)
    ELSE IF Head(body) = "-"
         THEN LET u == UnsignedDecimal(Tail(body)) IN
              IF u.nan THEN NaN ELSE Num(0 - u.n)
         ELSE UnsignedDecimal(body)

ToNumber(v) ==
    CASE v.t = "string" -> StringToNumber(v.s)
      [] v.t = "number" -> v
      [] v.t = "boolean" -> IF v.b THEN Whole(1) ELSE Whole(0)
      [] v.t = "null" -> Whole(0)
      [] OTHER -> NaN

NumberIsInteger(num) == ~num.nan /\ num.n % Scale = 0

(***************************************************************************)
(* new RegExp(pattern) and re.test(value), for patterns made of literal    *)
(* characters, the assertions ^ and $, and an unterminated class opener [  *)
(***************************************************************************)
\* new RegExp throws a SyntaxError on an unterminated character class
RegExpCompiles(p) ==
    ~ \E i \in 1..Len(p) : p[i] = "[" /\ ~ \E j \in (i + 1)..Len(p) : p[j] = "]"

RECURSIVE MatchAt(_, _, _, _)
MatchAt(p, i, s, pos) ==
    IF i > Len(p) THEN TRUE
    ELSE CASE p[i] = "^" -> pos = 0 /\ MatchAt(p, i + 1, s, pos)
           [] p[i] = "$" -> pos = Len(s) /\ MatchAt(p, i + 1, s, pos)
           [] OTHER -> pos < Len(s) /\ s[pos + 1] = p[i] /\ MatchAt(p, i + 1, s, pos + 1)

\* unanchored search, as RegExp.prototype.test without flags
RegExpTest(p, s) == \E start \in 0..Len(s) : MatchAt(p, 1, s, start)

(***************************************************************************)
(* Field and FieldRules (lib/form-types, as used by the renderer)          *)
(***************************************************************************)
FieldTypes == {"text", "textarea", "email", "number", "date", "select", "checkbox"}
TextLike == {"text", "textarea", "email"}

\* an optional rule number: absent, or a whole number in 0..MaxRule
OptRuleNumber == {Undefined} \cup {Whole(k) : k \in 0..MaxRule}

\* rules.pattern: absent, empty, two compilable patterns, one that does not compile
Patterns ==
    {Undefined, Str(<<>>), Str(<<"a">>), Str(<<"^", "1", "$">>), Str(<<"[">>)}

Rules(minLength, maxLength, pattern, integer, min, max) ==
    [t |-> "object", minLength |-> minLength, maxLength |-> maxLength,
     pattern |-> pattern, integer |-> integer, min |-> min, max |-> max]

\* a rules bag with no key set
EmptyRules == Rules(Undefined, Undefined, Undefined, Undefined, Undefined, Undefined)

TextRules ==
    {Rules(a, b, p, Undefined, Undefined, Undefined) :
        a \in OptRuleNumber, b \in OptRuleNumber, p \in Patterns}

NumberRules ==
    {Rules(Undefined, Undefined, Undefined, i, lo, hi) :
        i \in {Undefined, Bool(TRUE), Bool(FALSE)}, lo \in OptRuleNumber, hi \in OptRuleNumber}

\* the rules a field of the given type can carry; Undefined is a field
\* without a rules key, which is what addField creates
RulesOf(type) ==
    {Undefined} \cup
    (CASE type \in TextLike -> TextRules
       [] type = "number" -> NumberRules
       [] OTHER -> {EmptyRules})

Field(name, label, type, required, rules) ==
    [name |-> name, label |-> label, type |-> type, required |-> required, rules |-> rules]

Fields ==
    UNION {{Field("f", "Label", ty, rq, ru) : rq \in BOOLEAN, ru \in RulesOf(ty)} :
           ty \in FieldTypes}

\* runtime values handed to validateValue (value: unknown)
RuntimeValues ==
    {Str(s) : s \in Strings}
    \cup {Num(n) : n \in {0 - Scale, 0, Scale, Scale + Scale \div 2, (MaxRule + 1) * Scale}}
    \cup {NaN, Bool(TRUE), Bool(FALSE), Null, Undefined}

(***************************************************************************)
(* validateValue                                                           *)
(***************************************************************************)
\* what a call of validateValue produces: null, a message, or a raised error
Pass == [kind |-> "null"]
Message(label, text, args) ==
    [kind |-> "message", label |-> label, text |-> text, args |-> args]
Throws(e) == [kind |-> "throw", error |-> e]
\* no result yet / the check falls through to the next statement
Pending == [kind |-> "pending"]
Continue == [kind |-> "continue"]

isEmpty_NullishOnly(field, value) ==
    IF field.type = "checkbox" THEN value # Bool(TRUE) ELSE IsNullish(value)

isEmpty(field, value) ==
    IF field.type = "checkbox"
    THEN value # Bool(TRUE)
    ELSE value = Str(<<>>) \/ IsNullish(value)

minLengthFails_OffByOne(rules, value) ==
    ~IsNullish(rules.minLength) /\ Len(value.s) * Scale <= rules.minLength.n

minLengthFails(rules, value) ==
    ~IsNullish(rules.minLength) /\ Len(value.s) * Scale < rules.minLength.n

maxLengthFails(rules, value) ==
    ~IsNullish(rules.maxLength) /\ Len(value.s) * Scale > rules.maxLength.n

patternFails_NoCatch(rules, value) ==
    Truthy(rules.pattern)
    /\ (~RegExpCompiles(rules.pattern.s) \/ ~RegExpTest(rules.pattern.s, value.s))

\* try { new RegExp(pattern).test(value) } catch { }
patternFails(rules, value) ==
    Truthy(rules.pattern)
    /\ IF RegExpCompiles(rules.pattern.s)
       THEN ~RegExpTest(rules.pattern.s, value.s)
       ELSE FALSE

\* the text-like block; reading a key of an absent rules bag raises
textChecks(field, value) ==
    LET rules == field.rules IN
    IF field.type \notin TextLike \/ value.t # "string" THEN Continue
    ELSE IF rules.t = "undefined" THEN Throws("TypeError")
    ELSE IF minLengthFails(rules, value)
         THEN Message(field.label, " must be at least %1 characters.", <<rules.minLength>>)
    ELSE IF maxLengthFails(rules, value)
         THEN Message(field.label, " must be at most %1 characters.", <<rules.maxLength>>)
    ELSE IF patternFails(rules, value)
         THEN Message(field.label, " format is invalid.", <<>>)
    ELSE Continue

integerFails_Never(rules, num) == FALSE

integerFails(rules, num) == Truthy(rules.integer) /\ ~NumberIsInteger(num)

minFails(rules, num) == ~IsNullish(rules.min) /\ num.n < rules.min.n

maxFails(rules, num) == ~IsNullish(rules.max) /\ num.n > rules.max.n

isNotANumber(num) == num.nan

\* the number block
numberChecks(field, value) ==
    LET rules == field.rules
        num == ToNumber(value)
    IN
    IF field.type # "number" THEN Continue
    ELSE IF value = Str(<<>>) \/ IsNullish(value) THEN Continue
    ELSE IF isNotANumber(num) THEN Message(field.label, " must be a number.", <<>>)
    ELSE IF rules.t = "undefined" THEN Throws("TypeError")
    ELSE IF integerFails(rules, num) THEN Message(field.label, " must be a whole number.", <<>>)
    ELSE IF minFails(rules, num)
         THEN Message(field.label, " must be at least %1.", <<rules.min>>)
    ELSE IF maxFails(rules, num)
         THEN Message(field.label, " must be at most %1.", <<rules.max>>)
    ELSE Continue

validateValue(field, value) ==
    IF field.required /\ isEmpty(field, value)
    THEN Message(field.label, " is required.", <<>>)
    ELSE LET text == textChecks(field, value) IN
         IF text # Continue THEN text
         ELSE LET number == numberChecks(field, value) IN
              IF number # Continue THEN number
              ELSE Pass

(***************************************************************************)
(* ValidateSpec: one call of validateValue on an enumerated input          *)
(***************************************************************************)
\* no projector input drawn, no generated component mounted
ProjectorIdle ==
    /\ pin = Undefined
    /\ pout = Pending
    /\ gvalues = <<>>
    /\ delivered = Null

StudioIdle ==
    /\ sform = Undefined
    /\ storage = Null
    /\ expandedFieldId = Null
    /\ clock = 0
    /\ sop = [op |-> "none"]

ToastIdle ==
    /\ toasts = <<>>
    /\ timers = {}
    /\ idCounter = 0
    /\ store = <<>>
    /\ storeTimers = {}

RendererIdle ==
    /\ form = <<>>
    /\ values = <<>>
    /\ errors = <<>>
    /\ submitted = Null
    /\ isSubmitted = FALSE
    /\ last = [op |-> "none"]

ValidateInit ==
    /\ StudioIdle
    /\ ToastIdle
    /\ vfield \in Fields
    /\ vvalue \in RuntimeValues
    /\ vresult = Pending
    /\ RendererIdle
    /\ ProjectorIdle

Validate ==
    /\ vresult = Pending
    /\ vresult' = validateValue(vfield, vvalue)
    /\ UNCHANGED <<vfield, vvalue, form, values, errors, submitted, isSubmitted, last, projVars,
                   studioVars, toastVars>>

ValidateNext == Validate

ValidateSpec == ValidateInit /\ [][ValidateNext]_vars

(***************************************************************************)
(* Claims about validateValue (checked under ValidateSpec)                 *)
(***************************************************************************)
Done == vresult # Pending

\* "empty" as the specification words it: a checkbox that is not checked,
\* any other field holding "" or null/undefined
SpecEmpty(type, v) ==
    IF type = "checkbox" THEN v # Bool(TRUE) ELSE v \in {Str(<<>>), Null, Undefined}

RequiredMessage(field) == Message(field.label, " is required.", <<>>)
MinLengthMessage(field) ==
    Message(field.label, " must be at least %1 characters.", <<field.rules.minLength>>)
MaxLengthMessage(field) ==
    Message(field.label, " must be at most %1 characters.", <<field.rules.maxLength>>)
NotANumberMessage(field) == Message(field.label, " must be a number.", <<>>)
WholeNumberMessage(field) == Message(field.label, " must be a whole number.", <<>>)
MinMessage(field) == Message(field.label, " must be at least %1.", <<field.rules.min>>)
MaxMessage(field) == Message(field.label, " must be at most %1.", <<field.rules.max>>)

HasRules == vfield.rules.t = "object"

\* numeric input: a JS number other than NaN, or text that spells a decimal
\* number (white space alone spells none)
IsNumericInput(v) ==
    \/ v.t = "number" /\ ~v.nan
    \/ v.t = "string" /\ TrimLeft(v.s) # <<>> /\ ~StringToNumber(v.s).nan

\* the number a numeric input denotes, in units of 1/Scale
NumericValue(v) == IF v.t = "number" THEN v.n ELSE StringToNumber(v.s).n

\* C1: a required field with an empty value yields exactly "<label> is
\* required." whatever its rules are - no length, pattern, number, integer or
\* bound message.
C1_RequiredShortCircuit ==
    (Done /\ vfield.required /\ SpecEmpty(vfield.type, vvalue))
        => vresult = RequiredMessage(vfield)

\* the required check wins over a minLength rule the empty string also breaks
C1_Witness ==
    /\ Done /\ vfield.required /\ vfield.type = "text" /\ HasRules
    /\ vfield.rules.minLength = Whole(1)
    /\ vvalue = Str(<<>>)
    /\ vresult = RequiredMessage(vfield)

\* C2: on a field without a rules bag validation does not raise and applies
\* no constraint beyond required: every string on a text-like field and every
\* numeric value on a number field yields null.
C2_NoRulesNoConstraint ==
    (Done /\ vfield.rules = Undefined)
        => /\ vresult.kind # "throw"
           /\ ( /\ ~(vfield.required /\ SpecEmpty(vfield.type, vvalue))
                /\ \/ vfield.type \in TextLike /\ vvalue.t = "string"
                   \/ vfield.type = "number" /\ IsNumericInput(vvalue) )
              => vresult = Pass

\* the result the length rules and required alone give for a string
LengthOnlyResult(field, v) ==
    IF field.required /\ v = Str(<<>>) THEN RequiredMessage(field)
    ELSE IF field.rules.minLength # Undefined /\ Len(v.s) * Scale < field.rules.minLength.n
         THEN MinLengthMessage(field)
    ELSE IF field.rules.maxLength # Undefined /\ Len(v.s) * Scale > field.rules.maxLength.n
         THEN MaxLengthMessage(field)
    ELSE Pass

\* C3: a pattern that does not compile never makes validation raise and
\* counts as passed for every string: the result is the one required,
\* minLength and maxLength give.
C3_InvalidPatternFailsOpen ==
    ( /\ Done /\ vfield.type \in TextLike /\ HasRules
      /\ vfield.rules.pattern.t = "string" /\ vfield.rules.pattern.s # <<>>
      /\ ~RegExpCompiles(vfield.rules.pattern.s) )
        => /\ vresult.kind # "throw"
           /\ vvalue.t = "string" => vresult = LengthOnlyResult(vfield, vvalue)

\* the unbalanced bracket is accepted for a string it could never match
C3_Witness ==
    /\ Done /\ vfield.type = "email" /\ HasRules
    /\ vfield.rules.pattern = Str(<<"[">>)
    /\ vfield.rules.minLength = Whole(1)
    /\ vvalue = Str(<<"a">>)
    /\ vresult = Pass

\* a text field with minLength set and no pattern, given a string
C4_Case ==
    /\ Done /\ vfield.type = "text" /\ HasRules
    /\ vfield.rules.minLength # Undefined
    /\ vfield.rules.pattern = Undefined
    /\ vvalue.t = "string"

C4_LengthVerdict ==
    /\ Len(vvalue.s) * Scale < vfield.rules.minLength.n
           => vresult = MinLengthMessage(vfield)
    /\ ( /\ Len(vvalue.s) * Scale >= vfield.rules.minLength.n
         /\ \/ vfield.rules.maxLength = Undefined
            \/ Len(vvalue.s) * Scale <= vfield.rules.maxLength.n )
           => vresult = Pass

\* C4 as stated: on every text field with minLength = m and no pattern, a
\* string shorter than m fails with the "at least m characters" message and a
\* string of length >= m (and <= maxLength if set) yields null.
C4_Original == C4_Case => C4_LengthVerdict

\* C4 as amended: the same, except that the empty string on a required field
\* yields "<label> is required." instead.
C4_MinLength ==
    C4_Case =>
        IF vfield.required /\ vvalue = Str(<<>>)
        THEN vresult = RequiredMessage(vfield)
        ELSE C4_LengthVerdict

\* an optional field left empty still fails its minLength rule
C4_Witness ==
    /\ C4_Case /\ ~vfield.required
    /\ vfield.rules.minLength = Whole(1)
    /\ vvalue = Str(<<>>)
    /\ vresult = MinLengthMessage(vfield)

\* a number field with integer true, given a numeric value
C5_Case ==
    /\ Done /\ vfield.type = "number" /\ HasRules
    /\ vfield.rules.integer = Bool(TRUE)
    /\ IsNumericInput(vvalue)

C5_Fractional == NumericValue(vvalue) % Scale # 0
C5_BelowMin ==
    vfield.rules.min # Undefined /\ NumericValue(vvalue) < vfield.rules.min.n
C5_AboveMax ==
    vfield.rules.max # Undefined /\ NumericValue(vvalue) > vfield.rules.max.n

\* C5 as stated: with integer true a fractional value fails with the
\* whole-number message; an integral v passes when min <= v <= max, fails
\* with the min message when v < min and with the max message when v > max.
C5_Original ==
    C5_Case =>
        /\ C5_Fractional => vresult = WholeNumberMessage(vfield)
        /\ (~C5_Fractional /\ ~C5_BelowMin /\ ~C5_AboveMax) => vresult = Pass
        /\ (~C5_Fractional /\ C5_BelowMin) => vresult = MinMessage(vfield)
        /\ (~C5_Fractional /\ C5_AboveMax) => vresult = MaxMessage(vfield)

\* C5 as amended: the same, with the max message for v > max only when v is
\* not also below min (the min bound is reported first).
C5_IntegerBounds ==
    C5_Case =>
        /\ C5_Fractional => vresult = WholeNumberMessage(vfield)
        /\ (~C5_Fractional /\ ~C5_BelowMin /\ ~C5_AboveMax) => vresult = Pass
        /\ (~C5_Fractional /\ C5_BelowMin) => vresult = MinMessage(vfield)
        /\ (~C5_Fractional /\ ~C5_BelowMin /\ C5_AboveMax) => vresult = MaxMessage(vfield)

\* a fractional numeric string is turned down on an integer field whose
\* bounds it satisfies
C5_Witness ==
    /\ C5_Case /\ vvalue = Str(<<".", "1">>)
    /\ vfield.rules.min = Whole(0) /\ vfield.rules.max = Whole(1)
    /\ vresult = WholeNumberMessage(vfield)

\* C6: on a number field an empty raw value is not checked (null when the
\* field is not required), and every non-empty raw value that is not numeric
\* input yields exactly "<label> must be a number." - never null, an integer
\* or a min/max message.  Stated for the fields that carry a rules bag (the
\* absent bag is the subject of C2) and for raw values that arrive as text or
\* as a number.
C6_NonNumericRejected ==
    (Done /\ vfield.type = "number" /\ HasRules)
        => /\ (~vfield.required /\ vvalue \in {Str(<<>>), Null, Undefined})
                => vresult = Pass
           /\ ( /\ vvalue.t \in {"string", "number"}
                /\ vvalue # Str(<<>>)
                /\ ~IsNumericInput(vvalue) )
                => vresult = NotANumberMessage(vfield)

(***************************************************************************)
(* FormRenderer: react-hook-form state, onSubmit, onReset                  *)
(***************************************************************************)
NoError == Undefined

\* the fields the renderer is run on: names are unique within a form
FieldA == Field("a", "A", "text", TRUE,
                Rules(Whole(2), Undefined, Undefined, Undefined, Undefined, Undefined))
\* a field as addField creates it: not required, no rules key
FieldB_Added == Field("b", "B", "text", FALSE, Undefined)
FieldB_Email == Field("b", "B", "email", FALSE,
                      Rules(Undefined, Undefined, Str(<<"a">>), Undefined, Undefined, Undefined))
FieldC_Number == Field("c", "C", "number", TRUE,
                       Rules(Undefined, Undefined, Undefined, Bool(TRUE), Whole(1), Undefined))
FieldC_Checkbox == Field("c", "C", "checkbox", TRUE, EmptyRules)

RenderForms ==
    {<<FieldA, b, c>> : b \in {FieldB_Added, FieldB_Email},
                        c \in {FieldC_Number, FieldC_Checkbox}}

Names(fields) == {fields[i].name : i \in 1..Len(fields)}

\* what the control registered for a field can deliver as its value
InputsOf(field) ==
    CASE field.type = "checkbox" -> {Bool(TRUE), Bool(FALSE)}
      [] field.type = "number" -> {Str(<<>>), Str(<<"1">>), Str(<<".", "1">>), Str(<<"-", "1">>)}
      [] OTHER -> {Str(<<>>), Str(<<"a">>), Str(<<"a", "a">>)}

\* later fields overwrite earlier ones of the same name
buildDefaultValues(fields) ==
    [n \in Names(fields) |->
        LET i == CHOOSE k \in 1..Len(fields) :
                     /\ fields[k].name = n
                     /\ \A j \in (k + 1)..Len(fields) : fields[j].name # n
        IN IF fields[i].type = "checkbox" THEN Bool(FALSE) ELSE Str(<<>>)]

\* formState.errors with no entry
noErrors(fields) == [n \in Names(fields) |-> NoError]

\* the for loop of onSubmit from field i on; acc collects the setError
\* calls, hasError, the fields validated, and whether validateValue raised
RECURSIVE validateFields(_, _, _, _)
validateFields(fields, vals, i, acc) ==
    IF i > Len(fields) THEN acc
    ELSE LET field == fields[i]
             message == validateValue(field, vals[field.name])
             called == [acc EXCEPT !.calls = Append(@, <<i, vals[field.name]>>)]
         IN IF message.kind = "throw" THEN [called EXCEPT !.threw = TRUE]
            ELSE IF message.kind = "message"
                 THEN validateFields(fields, vals, i + 1,
                          [called EXCEPT !.hasError = TRUE, !.errors[field.name] = message])
            ELSE validateFields(fields, vals, i + 1, called)

shouldReturn_Never(run) == FALSE

\* if (hasError) return;
shouldReturn(run) == run.hasError

History(op, outcome, prev, calls) ==
    [op |-> op, outcome |-> outcome, prev |-> prev, calls |-> calls]

\* what the renderer showed before the handler ran
Shown == [submitted |-> submitted, errors |-> errors, values |-> values]

Init ==
    /\ StudioIdle
    /\ ToastIdle
    /\ form \in RenderForms
    /\ values = buildDefaultValues(form)
    /\ errors = noErrors(form)
    /\ submitted = Null
    /\ isSubmitted = FALSE
    /\ last = History("none", "none", Null, <<>>)
    /\ vfield = Undefined
    /\ vvalue = Undefined
    /\ vresult = Pending
    /\ ProjectorIdle

\* the user changes a control; after a submit react-hook-form re-validates
\* the changed field with its built-in rules (none are registered), which
\* removes the field's error
Edit ==
    \E i \in 1..Len(form) : \E v \in InputsOf(form[i]) :
        /\ values[form[i].name] # v
        /\ values' = [values EXCEPT ![form[i].name] = v]
        /\ errors' = IF isSubmitted THEN [errors EXCEPT ![form[i].name] = NoError] ELSE errors
        /\ last' = History("edit", "none", Shown, <<>>)
        /\ UNCHANGED <<form, submitted, isSubmitted, vfield, vvalue, vresult, projVars,
                   studioVars, toastVars>>

\* handleSubmit(onSubmit): built-in validation removes the errors of the
\* registered fields, then onSubmit runs on a copy of the values
onSubmit ==
    LET run == validateFields(form, values, 1,
                   [errors |-> noErrors(form), hasError |-> FALSE,
                    threw |-> FALSE, calls |-> <<>>])
        outcome == IF run.threw THEN "threw"
                   ELSE IF shouldReturn(run) THEN "rejected"
                   ELSE "accepted"
    IN /\ errors' = run.errors
       /\ submitted' = IF outcome = "accepted" THEN values ELSE submitted
       /\ isSubmitted' = TRUE
       /\ last' = History("submit", outcome, Shown, run.calls)
       /\ UNCHANGED <<form, values, vfield, vvalue, vresult, projVars,
                   studioVars, toastVars>>

onReset_KeepSubmitted ==
    /\ values' = buildDefaultValues(form)
    /\ errors' = noErrors(form)
    /\ isSubmitted' = FALSE
    /\ last' = History("reset", "none", Shown, <<>>)
    /\ UNCHANGED <<form, submitted, vfield, vvalue, vresult, projVars,
                   studioVars, toastVars>>

\* reset(defaultValues); setSubmitted(null)
onReset ==
    /\ values' = buildDefaultValues(form)
    /\ errors' = noErrors(form)
    /\ isSubmitted' = FALSE
    /\ submitted' = Null
    /\ last' = History("reset", "none", Shown, <<>>)
    /\ UNCHANGED <<form, vfield, vvalue, vresult, projVars,
                   studioVars, toastVars>>

Next == Edit \/ onSubmit \/ onReset

Spec == Init /\ [][Next]_vars

(***************************************************************************)
(* Claims about the renderer (checked under Spec)                          *)
(***************************************************************************)
\* what validateValue gives for field i on the current values
Verdict(i) == validateValue(form[i], values[form[i].name])

Failing == {i \in 1..Len(form) : Verdict(i).kind = "message"}

HasAttachedError == \E n \in Names(form) : errors[n] # NoError

\* C7: when validateValue returns a message for at least one field, the
\* submit leaves the accepted payload as it was, every failing field has its
\* own message attached and the fields that pass have none.
C7_RejectAttachesAll ==
    (last.op = "submit" /\ Failing # {})
        => /\ submitted = last.prev.submitted
           /\ \A i \in 1..Len(form) :
                /\ i \in Failing => errors[form[i].name] = Verdict(i)
                /\ Verdict(i) = Pass => errors[form[i].name] = NoError

\* C8: a submit exposes the values as the accepted payload exactly when
\* validateValue returns null for every field; the payload is then the
\* values at that moment, and otherwise it is left as it was.  A submit that
\* accepts or rejects has validated each field once, in order, against its
\* current value.
C8_AcceptIffAllPass ==
    last.op = "submit"
        => /\ last.outcome = "accepted" <=> \A i \in 1..Len(form) : Verdict(i) = Pass
           /\ last.outcome = "accepted"
                => /\ submitted = values
                   /\ last.calls = [i \in 1..Len(form) |-> <<i, values[form[i].name]>>]
           /\ last.outcome = "rejected"
                => last.calls = [i \in 1..Len(form) |-> <<i, values[form[i].name]>>]
           /\ last.outcome # "accepted" => submitted = last.prev.submitted

\* a second accepted submit replaces the payload of the first
C8_Witness ==
    /\ last.op = "submit" /\ last.outcome = "accepted"
    /\ last.prev.submitted # Null
    /\ submitted # last.prev.submitted
    /\ submitted = values

\* C9: the renderer is in exactly one of Idle, Accepted, Rejected: no accepted
\* payload of an earlier submit is exposed while messages of a later,
\* rejected submit are attached.
C9_OnePhase == ~(submitted # Null /\ HasAttachedError)

\* C10: Reset puts every field back to its default (false for a checkbox, ""
\* otherwise), removes the accepted payload and every attached message: the
\* renderer is in its initial Idle state again.
C10_ResetRestoresIdle ==
    last.op = "reset"
        => /\ \A i \in 1..Len(form) :
                values[form[i].name] =
                    IF form[i].type = "checkbox" THEN Bool(FALSE) ELSE Str(<<>>)
           /\ submitted = Null
           /\ ~HasAttachedError
           /\ isSubmitted = FALSE

\* Reset pressed while an accepted payload and rejection messages are shown
C10_Witness ==
    /\ last.op = "reset"
    /\ last.prev.submitted # Null
    /\ \E n \in Names(form) : last.prev.errors[n] # NoError
    /\ last.prev.values # values
    /\ submitted = Null /\ ~HasAttachedError

(***************************************************************************)
(* generateJsonSchema (lib/storage.ts): the schema projection of a form    *)
(***************************************************************************)
\* a JS array and a plain JS object (a select option) as tagged values
Arr(items) == [t |-> "array", items |-> items]
Option(label, value) == [t |-> "object", label |-> label, value |-> value]

\* obj[key]: a key the object does not have reads as undefined
Get(obj, key) == IF key \in DOMAIN obj THEN obj[key] ELSE Undefined

isRecord(value) == value.t \in {"object", "array"}

readNumber(obj, key) ==
    LET v == Get(obj, key) IN IF v.t = "number" THEN v ELSE Undefined

readBoolean_Truthy(obj, key) == Bool(Truthy(Get(obj, key)))

readBoolean(obj, key) ==
    LET v == Get(obj, key) IN IF v.t = "boolean" THEN v ELSE Undefined

readString(obj, key) ==
    LET v == Get(obj, key) IN IF v.t = "string" THEN v ELSE Undefined

\* .filter(v => typeof v === "string"): the strings of a sequence, in order
RECURSIVE filterStrings(_)
filterStrings(s) ==
    IF s = <<>> THEN <<>>
    ELSE (IF Head(s).t = "string" THEN <<Head(s)>> ELSE <<>>) \o filterStrings(Tail(s))

readOptionsValues_AllOrNothing(rules) ==
    IF ~isRecord(rules) THEN Arr(<<>>)
    ELSE LET rawOptions == Get(rules, "options") IN
         IF rawOptions.t # "array" THEN Arr(<<>>)
         ELSE IF \A i \in 1..Len(rawOptions.items) :
                    /\ isRecord(rawOptions.items[i])
                    /\ Get(rawOptions.items[i], "value").t = "string"
              THEN Arr([i \in 1..Len(rawOptions.items) |-> rawOptions.items[i].value])
              ELSE Arr(<<>>)

readOptionsValues(rules) ==
    IF ~isRecord(rules) THEN Arr(<<>>)
    ELSE LET rawOptions == Get(rules, "options") IN
         IF rawOptions.t # "array" THEN Arr(<<>>)
         ELSE LET mapped == [i \in 1..Len(rawOptions.items) |->
                                IF isRecord(rawOptions.items[i])
                                THEN Get(rawOptions.items[i], "value")
                                ELSE Undefined]
              IN Arr(filterStrings(mapped))

\* a property of the schema; a keyword the property does not have is Undefined
SchemaProperty(type, format, minLength, maxLength, pattern, minimum, maximum, enum) ==
    [type |-> type, format |-> format, minLength |-> minLength, maxLength |-> maxLength,
     pattern |-> pattern, minimum |-> minimum, maximum |-> maximum, enum |-> enum]

\* the two values of the format keyword
FormatEmail == Str(<<"e", "m", "a", "i", "l">>)
FormatDate == Str(<<"d", "a", "t", "e">>)

\* { type }, and { type, format }
TypeOnly(type) ==
    SchemaProperty(type, Undefined, Undefined, Undefined, Undefined, Undefined, Undefined,
                   Undefined)
TypeFormat(type, format) == [TypeOnly(type) EXCEPT !.format = format]

\* pattern.trim() !== ""
IsBlank(s) == TrimRight(TrimLeft(s)) = <<>>

fieldToJsonSchema(field) ==
    LET rules == field.rules IN
    CASE field.type \in {"text", "textarea", "email"} ->
            LET s0 == IF field.type = "email" THEN TypeFormat("string", FormatEmail)
                      ELSE TypeOnly("string")
            IN IF ~isRecord(rules) THEN s0
               ELSE LET minLength == readNumber(rules, "minLength")
                        maxLength == readNumber(rules, "maxLength")
                        pattern == readString(rules, "pattern")
                    IN [s0 EXCEPT
                          !.minLength = IF minLength # Undefined THEN minLength ELSE @,
                          !.maxLength = IF maxLength # Undefined THEN maxLength ELSE @,
                          !.pattern = IF Truthy(pattern) /\ ~IsBlank(pattern.s)
                                      THEN pattern ELSE @]
      [] field.type = "number" ->
            LET s0 == TypeOnly("number") IN
            IF ~isRecord(rules) THEN s0
            ELSE LET integer == readBoolean(rules, "integer")
                     min == readNumber(rules, "min")
                     max == readNumber(rules, "max")
                 IN [s0 EXCEPT
                       !.type = IF integer = Bool(TRUE) THEN "integer" ELSE @,
                       !.minimum = IF min # Undefined THEN min ELSE @,
                       !.maximum = IF max # Undefined THEN max ELSE @]
      [] field.type = "date" -> TypeFormat("string", FormatDate)
      [] field.type = "select" ->
            [TypeOnly("string") EXCEPT !.enum = readOptionsValues(rules)]
      [] field.type = "checkbox" -> TypeOnly("boolean")
      [] OTHER -> TypeOnly("string")

\* the loop of generateJsonSchema from field i on: properties[field.name] is
\* assigned (a later field of the same name overwrites), required names pushed
RECURSIVE schemaLoop(_, _, _, _)
schemaLoop(fields, i, properties, required) ==
    IF i > Len(fields) THEN [properties |-> properties, required |-> required]
    ELSE LET field == fields[i] IN
         schemaLoop(fields, i + 1,
                    (field.name :> fieldToJsonSchema(field)) @@ properties,
                    IF field.required THEN Append(required, field.name) ELSE required)

generateJsonSchema_EmptyRequired(f) ==
    LET run == schemaLoop(f.fields, 1, <<>>, <<>>) IN
    [schema |-> "https://json-schema.org/draft/2020-12/schema",
     title |-> f.title,
     type |-> "object",
     additionalProperties |-> FALSE,
     properties |-> run.properties,
     required |-> Arr(run.required)]

generateJsonSchema(f) ==
    LET run == schemaLoop(f.fields, 1, <<>>, <<>>) IN
    [schema |-> "https://json-schema.org/draft/2020-12/schema",
     title |-> f.title,
     type |-> "object",
     additionalProperties |-> FALSE,
     properties |-> run.properties,
     required |-> IF Len(run.required) > 0 THEN Arr(run.required) ELSE Undefined]

\* a rules bag with the options key; an unset key is Undefined
RulesWithOptions(minLength, maxLength, pattern, integer, min, max, options) ==
    [t |-> "object", minLength |-> minLength, maxLength |-> maxLength, pattern |-> pattern,
     integer |-> integer, min |-> min, max |-> max, options |-> options]

(***************************************************************************)
(* makeSafeComponentName, safeIdentifier, toPascalCase                     *)
(***************************************************************************)
\* the letters that occur in the model's texts, lower case and upper case
LowerLetters == <<"a", "d", "e", "m", "n", "o", "r", "t", "y">>
UpperLetters == <<"A", "D", "E", "M", "N", "O", "R", "T", "Y">>
OtherUpper == {"B", "F", "G", "P"}
DecimalDigits == {"0", "1", "3"}

Range(s) == {s[i] : i \in 1..Len(s)}

\* [A-Za-z], [0-9]
IsLetter(c) == c \in Range(LowerLetters) \cup Range(UpperLetters) \cup OtherUpper
IsDigit(c) == c \in DecimalDigits

\* c.toUpperCase()
toUpperCase(c) ==
    IF c \in Range(LowerLetters)
    THEN UpperLetters[CHOOSE i \in 1..Len(LowerLetters) : LowerLetters[i] = c]
    ELSE c

GeneratedForm == <<"G", "e", "n", "e", "r", "a", "t", "e", "d", "F", "o", "r", "m">>

\* String(input).replace(/[^A-Za-z0-9_\-\s]/g, " ").trim(), or "GeneratedForm"
safeIdentifier(input) ==
    LET replaced == [i \in 1..Len(input) |->
                        IF IsLetter(input[i]) \/ IsDigit(input[i])
                           \/ input[i] \in {"_", "-"} \cup WhiteSpace
                        THEN input[i] ELSE " "]
        cleaned == TrimRight(TrimLeft(replaced))
    IN IF Len(cleaned) > 0 THEN cleaned ELSE GeneratedForm

\* .replace(/[_\-]+/g, " "): every run of _ and - becomes one space
RECURSIVE replaceSeparators(_)
replaceSeparators(s) ==
    IF s = <<>> THEN <<>>
    ELSE IF Head(s) \in {"_", "-"}
         THEN IF Len(s) > 1 /\ s[2] \in {"_", "-"}
              THEN replaceSeparators(Tail(s))
              ELSE <<" ">> \o replaceSeparators(Tail(s))
         ELSE <<Head(s)>> \o replaceSeparators(Tail(s))

\* .split(/\s+/).filter(Boolean): the maximal runs without white space;
\* word is the run being read
RECURSIVE splitWords(_, _)
splitWords(s, word) ==
    IF s = <<>> THEN (IF word = <<>> THEN <<>> ELSE <<word>>)
    ELSE IF Head(s) \in WhiteSpace
         THEN (IF word = <<>> THEN <<>> ELSE <<word>>) \o splitWords(Tail(s), <<>>)
         ELSE splitWords(Tail(s), Append(word, Head(s)))

\* .map(part => part.charAt(0).toUpperCase() + part.slice(1)).join("")
RECURSIVE capitalizeAndJoin(_)
capitalizeAndJoin(parts) ==
    IF parts = <<>> THEN <<>>
    ELSE <<toUpperCase(Head(parts)[1])>> \o Tail(Head(parts))
         \o capitalizeAndJoin(Tail(parts))

toPascalCase(input) == capitalizeAndJoin(splitWords(replaceSeparators(input), <<>>))

makeSafeComponentName_NoPrefix(input) ==
    LET base == toPascalCase(safeIdentifier(input)) IN
    IF Len(base) > 0 THEN base ELSE GeneratedForm

makeSafeComponentName(input) ==
    LET base == toPascalCase(safeIdentifier(input))
        fallback == IF Len(base) > 0 THEN base ELSE GeneratedForm
    IN IF IsLetter(fallback[1]) \/ fallback[1] = "_"
       THEN fallback
       ELSE <<"F", "o", "r", "m">> \o fallback

(***************************************************************************)
(* escapeTemplateString, and the JSX text position the result is put in    *)
(***************************************************************************)
\* .replace(/\\/g, "\\\\")
RECURSIVE escapeBackslashes(_)
escapeBackslashes(s) ==
    IF s = <<>> THEN <<>>
    ELSE (IF Head(s) = "\\" THEN <<"\\", "\\">> ELSE <<Head(s)>>)
         \o escapeBackslashes(Tail(s))

\* the backtick character (U+0060), named because a string of this module
\* cannot hold it
Backtick == "U+0060"

\* .replace(/`/g, "\\`")
RECURSIVE escapeBackticks(_)
escapeBackticks(s) ==
    IF s = <<>> THEN <<>>
    ELSE (IF Head(s) = Backtick THEN <<"\\", Backtick>> ELSE <<Head(s)>>)
         \o escapeBackticks(Tail(s))

\* .replace(/\$\{/g, "\\${")
RECURSIVE escapeMarkers(_)
escapeMarkers(s) ==
    IF s = <<>> THEN <<>>
    ELSE IF Len(s) > 1 /\ s[1] = "$" /\ s[2] = "{"
         THEN <<"\\", "$", "{">> \o escapeMarkers(Tail(Tail(s)))
         ELSE <<Head(s)>> \o escapeMarkers(Tail(s))

escapeTemplateString(input) == escapeMarkers(escapeBackticks(escapeBackslashes(input)))

(***************************************************************************)
(* generateReactTsComponent (lib/storage.ts): the controls of the          *)
(* component the generated source describes                                *)
(***************************************************************************)
\* JSON.stringify of a scalar: NaN and the infinities are written as null
jsonScalar(v) == IF v.t = "number" /\ (v.nan \/ "inf" \in DOMAIN v) THEN Null ELSE v

\* JSON.stringify of an array entry: undefined is written as null, the keys
\* of an object are written one by one
jsonEntry(v) ==
    CASE v.t = "undefined" -> Null
      [] v.t = "object" -> Option(jsonScalar(Get(v, "label")), jsonScalar(Get(v, "value")))
      [] OTHER -> jsonScalar(v)

\* FIELDS: what the generated module reads back from
\* JSON.stringify(form.fields); a key holding undefined is not written
fieldsLiteral(field) ==
    IF ~isRecord(field.rules) THEN field
    ELSE LET r == field.rules
             o == Get(r, "options")
         IN [field EXCEPT !.rules =
                IF "options" \in DOMAIN r
                THEN RulesWithOptions(jsonScalar(r.minLength), jsonScalar(r.maxLength),
                         jsonScalar(r.pattern), jsonScalar(r.integer),
                         jsonScalar(r.min), jsonScalar(r.max),
                         IF o.t = "array"
                         THEN Arr([k \in 1..Len(o.items) |-> jsonEntry(o.items[k])])
                         ELSE jsonScalar(o))
                ELSE Rules(jsonScalar(r.minLength), jsonScalar(r.maxLength),
                           jsonScalar(r.pattern), jsonScalar(r.integer),
                           jsonScalar(r.min), jsonScalar(r.max))]

\* a rendered control: its element, its type attribute ("" when the element
\* has none) and its constraint attributes (Undefined when not set)
Control(tag, type, required, minLength, maxLength, pattern, min, max, step, options) ==
    [tag |-> tag, type |-> type, required |-> required, minLength |-> minLength,
     maxLength |-> maxLength, pattern |-> pattern, min |-> min, max |-> max,
     step |-> step, options |-> options]

StepAny == Str(<<"a", "n", "y">>)

\* the callback of FIELDS.map in the generated component
controlOf(field) ==
    LET rules == IF IsNullish(field.rules) THEN EmptyRules ELSE field.rules
        isRequired == field.required
        numberOr(key) == IF Get(rules, key).t = "number" THEN Get(rules, key) ELSE Undefined
        stringOr(key) == IF Get(rules, key).t = "string" THEN Get(rules, key) ELSE Undefined
    IN
    CASE field.type = "checkbox" ->
            Control("input", "checkbox", isRequired, Undefined, Undefined, Undefined,
                    Undefined, Undefined, Undefined, Undefined)
      [] field.type = "textarea" ->
            Control("textarea", "", isRequired, numberOr("minLength"), numberOr("maxLength"),
                    Undefined, Undefined, Undefined, Undefined, Undefined)
      [] field.type = "select" ->
            LET opts == IF Get(rules, "options").t = "array" THEN Get(rules, "options")
                        ELSE Arr(<<>>)
            IN Control("select", "", isRequired, Undefined, Undefined, Undefined,
                       Undefined, Undefined, Undefined, opts)
      [] OTHER ->
            Control("input", field.type, isRequired, numberOr("minLength"),
                    numberOr("maxLength"), stringOr("pattern"), numberOr("min"),
                    numberOr("max"),
                    IF field.type = "number"
                    THEN (IF Truthy(Get(rules, "integer")) THEN Whole(1) ELSE StepAny)
                    ELSE Undefined,
                    Undefined)

DEFAULT_VALUES_AllText(fields) == [n \in Names(fields) |-> Str(<<>>)]

\* initLines: false for a checkbox, "" for every other type; in the object
\* literal a later entry of the same key replaces an earlier one
DEFAULT_VALUES(fields) ==
    [n \in Names(fields) |->
        LET i == CHOOSE k \in 1..Len(fields) :
                     /\ fields[k].name = n
                     /\ \A j \in (k + 1)..Len(fields) : fields[j].name # n
        IN IF fields[i].type = "checkbox" THEN Bool(FALSE) ELSE Str(<<>>)]

\* the parts of the generated source that depend on the form: the component
\* identifier, the title and description texts put between the tags of
\* their <div> elements (description Undefined: no element), the FIELDS and
\* DEFAULT_VALUES literals, and the controls FIELDS.map renders, in field
\* order
generateReactTsComponent(f) ==
    LET componentName ==
            makeSafeComponentName(IF Truthy(f.id) THEN f.id.s
                                  ELSE IF Truthy(f.title) THEN f.title.s
                                  ELSE GeneratedForm)
        title == escapeTemplateString(f.title.s)
        description == IF Truthy(f.description) THEN escapeTemplateString(f.description.s)
                       ELSE <<>>
    IN [componentName |-> componentName,
        title |-> title,
        description |-> IF description # <<>> THEN Str(description) ELSE Undefined,
        FIELDS |-> [i \in 1..Len(f.fields) |-> fieldsLiteral(f.fields[i])],
        DEFAULT_VALUES |-> DEFAULT_VALUES(f.fields),
        controls |-> [i \in 1..Len(f.fields) |-> controlOf(fieldsLiteral(f.fields[i]))]]

(***************************************************************************)
(* SchemaSpec: the export page loads a form and computes its outputs       *)
(***************************************************************************)
\* what a stored form can hold under a numeric rule key: unset, whole numbers,
\* a negative and a fractional number (the builder's toNumberOrUndefined lets
\* both through), and a string; JSON holds no NaN
StoredNumbers ==
    {Undefined, Whole(0), Whole(MaxRule), Num(0 - Scale), Num(Scale + Scale \div 2),
     Str(<<"1">>)}

\* under the pattern key: the patterns, a blank string, a non-string
StoredPatterns == Patterns \cup {Str(<<" ">>), Whole(1)}

\* under the integer key: unset, booleans, a truthy non-boolean
StoredIntegers == {Undefined, Bool(TRUE), Bool(FALSE), Whole(1)}

OptA == Option(Str(<<"A">>), Str(<<"a">>))
OptB == Option(Str(<<"B">>), Str(<<"b">>))

\* under the options key: unset, a non-array, arrays of well-formed options
\* (one with a repeated value), and arrays with an entry that has a
\* non-string value, no value, or is not an object
StoredOptions ==
    {Undefined, Str(<<"a">>),
     Arr(<<>>), Arr(<<OptA>>), Arr(<<OptA, OptB>>), Arr(<<OptB, OptA>>), Arr(<<OptA, OptA>>),
     Arr(<<OptA, Option(Str(<<"B">>), Whole(1))>>),
     Arr(<<Option(Str(<<"B">>), Undefined), OptB>>),
     Arr(<<Str(<<"a">>), OptB>>)}

\* field types of a stored form: the seven of FieldType and one it lacks
StoredTypes == FieldTypes \cup {"future"}

\* rules bags holding only keys of the field's own type
StoredRulesOf(type) ==
    {Undefined} \cup
    (CASE type \in TextLike ->
            {RulesWithOptions(a, b, p, Undefined, Undefined, Undefined, Undefined) :
                a \in StoredNumbers, b \in StoredNumbers, p \in StoredPatterns}
       [] type = "number" ->
            {RulesWithOptions(Undefined, Undefined, Undefined, i, lo, hi, Undefined) :
                i \in StoredIntegers, lo \in StoredNumbers, hi \in StoredNumbers}
       [] type = "select" ->
            {RulesWithOptions(Undefined, Undefined, Undefined, Undefined, Undefined,
                              Undefined, o) : o \in StoredOptions}
       [] OTHER -> {EmptyRules})

StoredFields ==
    UNION {{Field("f", "Label", ty, rq, ru) : rq \in BOOLEAN, ru \in StoredRulesOf(ty)} :
           ty \in StoredTypes}

\* a second field, for the order of the required list
Companions == {Field("g", "G", "checkbox", rq, Undefined) : rq \in BOOLEAN}

FormDefinition(id, title, description, fields) ==
    [kind |-> "form", id |-> id, title |-> title, description |-> description,
     fields |-> fields]

\* forms of zero, one and two fields with unique names
StoredForms ==
    {FormDefinition(Str(<<"a">>), ti, Undefined, fs) :
        ti \in {Str(<<>>), Str(<<"a">>)},
        fs \in {<<>>} \cup {<<f>> : f \in StoredFields}
               \cup {<<f, g>> : f \in StoredFields, g \in Companions}
               \cup {<<g, f>> : f \in StoredFields, g \in Companions}}

SchemaInit ==
    /\ StudioIdle
    /\ ToastIdle
    /\ pin \in StoredForms
    /\ pout = Pending
    /\ gvalues = <<>>
    /\ delivered = Null
    /\ RendererIdle
    /\ vfield = Undefined
    /\ vvalue = Undefined
    /\ vresult = Pending

outputs_SharedRequired ==
    LET earlier == IF Len(last.calls) = 0 THEN Undefined
                   ELSE last.calls[Len(last.calls)].outputs.schema.required
        schema == generateJsonSchema(pin)
    IN /\ pout = Pending
       /\ pin.kind = "form"
       /\ pout' = [kind |-> "outputs",
                   schema |-> [schema EXCEPT !.required =
                                  IF earlier = Undefined THEN @
                                  ELSE IF @ = Undefined THEN earlier
                                  ELSE Arr(earlier.items \o @.items)],
                   reactTs |-> generateReactTsComponent(pin)]
       /\ UNCHANGED <<vfield, vvalue, vresult, form, values, errors, submitted, isSubmitted,
                      last, pin, gvalues, delivered,
                   studioVars, toastVars>>

\* useMemo of the export page: the outputs of the loaded form
outputs ==
    /\ pout = Pending
    /\ pin.kind = "form"
    /\ pout' = [kind |-> "outputs",
                schema |-> generateJsonSchema(pin),
                reactTs |-> generateReactTsComponent(pin)]
    /\ UNCHANGED <<vfield, vvalue, vresult, form, values, errors, submitted, isSubmitted,
                   last, pin, gvalues, delivered,
                   studioVars, toastVars>>

SchemaNext == outputs

SchemaSpec == SchemaInit /\ [][SchemaNext]_vars

SchemaDone == pout.kind = "outputs"

(***************************************************************************)
(* Claims about generateJsonSchema                                         *)
(***************************************************************************)
\* rules.integer === true
IntegerIsTrue(field) ==
    isRecord(field.rules) /\ Get(field.rules, "integer") = Bool(TRUE)

\* the type, format and enum presence C11 fixes for a field type
ShapeOk(field, prop) ==
    CASE field.type \in {"text", "textarea"} ->
            prop.type = "string" /\ prop.format = Undefined /\ prop.enum = Undefined
      [] field.type = "email" ->
            prop.type = "string" /\ prop.format = FormatEmail /\ prop.enum = Undefined
      [] field.type = "date" -> prop = TypeFormat("string", FormatDate)
      [] field.type = "number" ->
            /\ prop.type = (IF IntegerIsTrue(field) THEN "integer" ELSE "number")
            /\ prop.format = Undefined /\ prop.enum = Undefined
      [] field.type = "select" ->
            prop.type = "string" /\ prop.format = Undefined /\ prop.enum.t = "array"
      [] field.type = "checkbox" -> prop = TypeOnly("boolean")
      [] OTHER -> prop = TypeOnly("string")

\* C11: generateJsonSchema returns a schema (it never fails) whose properties
\* has exactly one entry per field, keyed by field.name, with the shape fixed
\* by field.type: text/textarea {type string}; email {type string, format
\* email}; date {type string, format date}; number {type number}, integer
\* exactly when rules.integer === true; select {type string, enum}; checkbox
\* {type boolean}; an unrecognized type {type string}.
C11_ShapeByType ==
    SchemaDone =>
        /\ DOMAIN pout.schema.properties = Names(pin.fields)
        /\ Cardinality(DOMAIN pout.schema.properties) = Len(pin.fields)
        /\ \A i \in 1..Len(pin.fields) :
              ShapeOk(pin.fields[i], pout.schema.properties[pin.fields[i].name])

\* witness: a two-field form whose number field has a truthy integer rule
\* that is not true, projected to type number next to a boolean property
C11_Witness ==
    /\ SchemaDone
    /\ Len(pin.fields) = 2
    /\ \E i \in 1..2 :
          /\ pin.fields[i].type = "number"
          /\ isRecord(pin.fields[i].rules)
          /\ pin.fields[i].rules.integer = Whole(1)
          /\ pout.schema.properties[pin.fields[i].name].type = "number"
    /\ pout.schema.properties["g"] = TypeOnly("boolean")

\* a numerically valid length bound: a non-negative integer
IsValidLength(v) == v.t = "number" /\ ~v.nan /\ v.n >= 0 /\ v.n % Scale = 0

\* a valid number for minimum/maximum
IsValidNumber(v) == v.t = "number" /\ ~v.nan

\* a non-blank string
IsNonBlankString(v) == v.t = "string" /\ ~IsBlank(v.s)

\* the keyword is in the property exactly when the rule is valid, with its value
CopiedWhenValid(rule, keyword, Valid(_)) ==
    IF Valid(rule) THEN keyword = rule ELSE keyword = Undefined

\* C12: the emitted schema is valid: for text/textarea/email, minLength and
\* maxLength are in the property only when the rule is a non-negative
\* integer and pattern only when it is a non-blank string; for number,
\* minimum/maximum only when min/max are valid numbers; an unset rule is
\* absent from the property.
C12_ValidKeywords ==
    SchemaDone =>
        \A i \in 1..Len(pin.fields) :
            LET field == pin.fields[i]
                prop == pout.schema.properties[field.name]
                rule(key) == IF isRecord(field.rules) THEN Get(field.rules, key)
                             ELSE Undefined
            IN /\ field.type \in TextLike =>
                     /\ CopiedWhenValid(rule("minLength"), prop.minLength, IsValidLength)
                     /\ CopiedWhenValid(rule("maxLength"), prop.maxLength, IsValidLength)
                     /\ CopiedWhenValid(rule("pattern"), prop.pattern, IsNonBlankString)
               /\ field.type = "number" =>
                     /\ CopiedWhenValid(rule("min"), prop.minimum, IsValidNumber)
                     /\ CopiedWhenValid(rule("max"), prop.maximum, IsValidNumber)

\* the names of the fields whose required is true, in field order
RECURSIVE RequiredNames(_)
RequiredNames(fields) ==
    IF fields = <<>> THEN <<>>
    ELSE (IF Head(fields).required THEN <<Head(fields).name>> ELSE <<>>)
         \o RequiredNames(Tail(fields))

\* C13: the required array lists exactly the names of the fields whose
\* required is true, in field order, and the required key is absent from the
\* document (never an empty array) when no field is required.
C13_RequiredList ==
    SchemaDone =>
        IF \E i \in 1..Len(pin.fields) : pin.fields[i].required
        THEN pout.schema.required = Arr(RequiredNames(pin.fields))
        ELSE pout.schema.required = Undefined

\* witness: both fields of a two-field form are required and listed in field
\* order, the checkbox first
C13_Witness ==
    /\ SchemaDone
    /\ Len(pin.fields) = 2
    /\ pin.fields[1].name = "g"
    /\ pin.fields[1].required /\ pin.fields[2].required
    /\ pout.schema.required = Arr(<<"g", "f">>)

\* witness of the other case: fields, none required, and no required key
C13_WitnessAbsent ==
    /\ SchemaDone
    /\ Len(pin.fields) = 2
    /\ ~pin.fields[1].required /\ ~pin.fields[2].required
    /\ pout.schema.required = Undefined

\* rules.options of a select field, Undefined when there is no rules bag
OptionsOf(field) ==
    IF isRecord(field.rules) THEN Get(field.rules, "options") ELSE Undefined

\* an option of the expected shape: an object whose value is a string
IsWellFormedOption(opt) == isRecord(opt) /\ Get(opt, "value").t = "string"

\* every entry of the options array has the expected shape
IsWellFormedOptions(options) ==
    /\ options.t = "array"
    /\ \A k \in 1..Len(options.items) : IsWellFormedOption(options.items[k])

\* the value of each option, in option order
ValuesOf(options) == [k \in 1..Len(options.items) |-> options.items[k].value]

\* the well-formed options of an array, in order
RECURSIVE WellFormedOnly(_)
WellFormedOnly(items) ==
    IF items = <<>> THEN <<>>
    ELSE (IF IsWellFormedOption(Head(items)) THEN <<Head(items)>> ELSE <<>>)
         \o WellFormedOnly(Tail(items))

C14_Case(i) == SchemaDone /\ i \in 1..Len(pin.fields) /\ pin.fields[i].type = "select"

\* C14 as stated: for a select field, enum is the value of each option in
\* option order (same length as options); when options is missing, not an
\* array, or malformed, enum is the empty array.
C14_Original ==
    \A i \in 1..2 :
        C14_Case(i) =>
            LET options == OptionsOf(pin.fields[i])
                enum == pout.schema.properties[pin.fields[i].name].enum
            IN IF IsWellFormedOptions(options)
               THEN enum = Arr(ValuesOf(options))
               ELSE enum = Arr(<<>>)

\* C14 amended: enum is the value of each well-formed option (an object with
\* a string value) in option order, so it has the length of options when
\* every option is well-formed; entries that are not well-formed are left
\* out one by one; when options is missing or not an array, enum is the
\* empty array.
C14_EnumOfOptions ==
    \A i \in 1..2 :
        C14_Case(i) =>
            LET options == OptionsOf(pin.fields[i])
                enum == pout.schema.properties[pin.fields[i].name].enum
            IN IF options.t = "array"
               THEN /\ enum = Arr(ValuesOf(Arr(WellFormedOnly(options.items))))
                    /\ IsWellFormedOptions(options) =>
                          /\ enum = Arr(ValuesOf(options))
                          /\ Len(enum.items) = Len(options.items)
               ELSE enum = Arr(<<>>)

\* witness: an options array with one well-formed and one malformed entry is
\* projected to the one string value
C14_Witness ==
    /\ C14_Case(1)
    /\ OptionsOf(pin.fields[1]) = Arr(<<OptA, Option(Str(<<"B">>), Whole(1))>>)
    /\ pout.schema.properties["f"].enum = Arr(<<Str(<<"a">>)>>)

\* witness of the well-formed case: two options, two values in option order
C14_WitnessOrdered ==
    /\ C14_Case(1)
    /\ OptionsOf(pin.fields[1]) = Arr(<<OptB, OptA>>)
    /\ pout.schema.properties["f"].enum = Arr(<<Str(<<"b">>), Str(<<"a">>)>>)

(***************************************************************************)
(* ConsistencySpec: one field read by its three consumers, the validator   *)
(* on a runtime value and the two projections of the export page           *)
(***************************************************************************)
\* rule keys left in the bag by an earlier field type: none, those of a text
\* field, those of a number field, those of a select field
Leftovers ==
    {RulesWithOptions(Undefined, Undefined, Undefined, Undefined, Undefined, Undefined,
                      Undefined),
     RulesWithOptions(Whole(1), Whole(1), Str(<<"a">>), Undefined, Undefined, Undefined,
                      Undefined),
     RulesWithOptions(Undefined, Undefined, Undefined, Bool(TRUE), Whole(1), Whole(1),
                      Undefined),
     RulesWithOptions(Undefined, Undefined, Undefined, Undefined, Undefined, Undefined,
                      Arr(<<OptA>>))}

\* the keys of FieldRules that belong to a field type
RelevantKeys(type) ==
    CASE type \in TextLike -> {"minLength", "maxLength", "pattern"}
      [] type = "number" -> {"integer", "min", "max"}
      [] type = "select" -> {"options"}
      [] OTHER -> {}

\* the bag own for the keys of the type, and the bag other for the rest
Merge(type, own, other) ==
    LET pick(key) == IF key \in RelevantKeys(type) THEN own[key] ELSE other[key] IN
    RulesWithOptions(pick("minLength"), pick("maxLength"), pick("pattern"), pick("integer"),
                     pick("min"), pick("max"), pick("options"))

\* well-typed rules of the field's own type, as the rule editor writes them
OwnRules(type) ==
    CASE type \in TextLike ->
            {RulesWithOptions(a, b, p, Undefined, Undefined, Undefined, Undefined) :
                a \in {Undefined, Whole(1)}, b \in {Undefined, Whole(MaxRule)},
                p \in {Undefined, Str(<<"a">>), Str(<<"^", "1", "$">>)}}
       [] type = "number" ->
            {RulesWithOptions(Undefined, Undefined, Undefined, i, lo, hi, Undefined) :
                i \in {Undefined, Bool(TRUE), Bool(FALSE)},
                lo \in {Undefined, Whole(1)}, hi \in {Undefined, Whole(MaxRule)}}
       [] type = "select" ->
            {RulesWithOptions(Undefined, Undefined, Undefined, Undefined, Undefined,
                              Undefined, o) :
                o \in {Undefined, Arr(<<>>), Arr(<<OptA, OptB>>)}}
       [] OTHER ->
            {RulesWithOptions(Undefined, Undefined, Undefined, Undefined, Undefined,
                              Undefined, Undefined)}

\* fields with a rules bag: own keys well-typed, leftovers of another type
ConsistencyFields ==
    UNION {{Field("f", "Label", ty, rq, Merge(ty, own, other)) :
               rq \in BOOLEAN, own \in OwnRules(ty), other \in Leftovers} :
           ty \in StoredTypes}

ConsistencyInit ==
    /\ StudioIdle
    /\ ToastIdle
    /\ vfield \in ConsistencyFields
    /\ vvalue \in RuntimeValues
    /\ vresult = Pending
    /\ pin = FormDefinition(Str(<<"a">>), Str(<<"a">>), Undefined, <<vfield>>)
    /\ pout = Pending
    /\ gvalues = <<>>
    /\ delivered = Null
    /\ RendererIdle

ConsistencyNext == Validate \/ outputs

ConsistencySpec == ConsistencyInit /\ [][ConsistencyNext]_vars

\* both the validator and the export page have run on the field
ConsistencyDone == vresult # Pending /\ pout.kind = "outputs"

(***************************************************************************)
(* Claims about the consistency of validator, schema and component         *)
(***************************************************************************)
\* JSON Schema (draft 2020-12) validation of an instance against a property:
\* type, and the keywords that apply to the instance's type; format is an
\* annotation and rejects nothing
InstanceIsType(type, v) ==
    CASE type = "string" -> v.t = "string"
      [] type = "number" -> v.t = "number" /\ ~v.nan
      [] type = "integer" -> v.t = "number" /\ NumberIsInteger(v)
      [] type = "boolean" -> v.t = "boolean"
      [] OTHER -> FALSE

SatisfiesProperty(prop, v) ==
    /\ InstanceIsType(prop.type, v)
    /\ (v.t = "string" /\ prop.minLength # Undefined) =>
           Len(v.s) * Scale >= prop.minLength.n
    /\ (v.t = "string" /\ prop.maxLength # Undefined) =>
           Len(v.s) * Scale <= prop.maxLength.n
    /\ (v.t = "string" /\ prop.pattern # Undefined) =>
           RegExpCompiles(prop.pattern.s) /\ RegExpTest(prop.pattern.s, v.s)
    /\ (v.t = "number" /\ prop.minimum # Undefined) => v.n >= prop.minimum.n
    /\ (v.t = "number" /\ prop.maximum # Undefined) => v.n <= prop.maximum.n
    /\ prop.enum # Undefined => \E k \in 1..Len(prop.enum.items) : prop.enum.items[k] = v

\* the document { name: v }, or {} when v is undefined, against the schema
SatisfiesSchema(schema, name, v) ==
    IF v = Undefined
    THEN schema.required = Undefined
         \/ ~ \E k \in 1..Len(schema.required.items) : schema.required.items[k] = name
    ELSE name \in DOMAIN schema.properties /\ SatisfiesProperty(schema.properties[name], v)

\* C15: for every field and every runtime value, validateValue returns null
\* exactly when the value satisfies what generateJsonSchema emits for the
\* field: its property schema, and presence when its name is in required.
\* Stated for fields that have a rules bag (C2 is about those without) and
\* for the values the field's control delivers: a boolean for a checkbox, a
\* string for every other type.
C15_ValidatorMatchesSchema ==
    (ConsistencyDone /\ vvalue.t = (IF vfield.type = "checkbox" THEN "boolean" ELSE "string")) =>
        (vresult = Pass <=> SatisfiesSchema(pout.schema, vfield.name, vvalue))

(***************************************************************************)
(* ExportSpec: the component described by the generated source, mounted    *)
(* with an onSubmit prop                                                   *)
(***************************************************************************)
ExportInit ==
    /\ StudioIdle
    /\ ToastIdle
    /\ pin \in {FormDefinition(Str(<<"a">>), Str(<<"a">>), Undefined, fs) : fs \in RenderForms}
    /\ pout = Pending
    /\ gvalues = DEFAULT_VALUES(pin.fields)
    /\ delivered = Null
    /\ RendererIdle
    /\ vfield = Undefined
    /\ vvalue = Undefined
    /\ vresult = Pending

\* onChange of a control: setValue(field.name, next)
setValue ==
    \E i \in 1..Len(pin.fields) : \E next \in InputsOf(pin.fields[i]) :
        /\ gvalues[pin.fields[i].name] # next
        /\ gvalues' = [gvalues EXCEPT ![pin.fields[i].name] = next]
        /\ UNCHANGED <<vfield, vvalue, vresult, form, values, errors, submitted,
                       isSubmitted, last, pin, pout, delivered,
                   studioVars, toastVars>>

\* the form carries noValidate, so the browser checks no constraint
\* attribute before the submit event: e.preventDefault(); onSubmit?.(values)
handleSubmit ==
    /\ delivered' = gvalues
    /\ UNCHANGED <<vfield, vvalue, vresult, form, values, errors, submitted,
                   isSubmitted, last, pin, pout, gvalues,
                   studioVars, toastVars>>

ExportNext == setValue \/ handleSubmit

ExportSpec == ExportInit /\ [][ExportNext]_vars

\* C16: the generated component hands the values to its onSubmit callback
\* only when the live renderer would accept the same values, that is when
\* every field passes validateValue; values the renderer rejects (an empty
\* required field) are not delivered.
C16_DeliversOnlyAccepted ==
    delivered # Null =>
        \A i \in 1..Len(pin.fields) :
            validateValue(pin.fields[i], delivered[pin.fields[i].name]) = Pass

\* the field with every rule key of another type removed from its bag
OwnKeysOnly(field) ==
    [field EXCEPT !.rules =
        Merge(field.type, field.rules,
              RulesWithOptions(Undefined, Undefined, Undefined, Undefined, Undefined,
                               Undefined, Undefined))]

HasLeftovers(field) == OwnKeysOnly(field) # field

\* C17: every consumer of a field's rules uses only the rule keys of the
\* field's own type: for two fields that differ only in rule keys of another
\* type, the validation result, the schema property and the generated
\* control with its constraint attributes are identical. Stated as: each
\* consumer gives the field what it gives the field without those keys.
C17_OnlyOwnKeys ==
    ConsistencyDone =>
        /\ vresult = validateValue(OwnKeysOnly(vfield), vvalue)
        /\ pout.schema.properties[vfield.name] = fieldToJsonSchema(OwnKeysOnly(vfield))
        /\ pout.reactTs.controls[1] = controlOf(fieldsLiteral(OwnKeysOnly(vfield)))

\* the part of C17 that holds: validator and schema read own keys only
C17_ValidatorAndSchema ==
    ConsistencyDone =>
        /\ vresult = validateValue(OwnKeysOnly(vfield), vvalue)
        /\ pout.schema.properties[vfield.name] = fieldToJsonSchema(OwnKeysOnly(vfield))

(***************************************************************************)
(* SourceSpec: the export page computes its outputs for forms that differ  *)
(* in id, title and description                                            *)
(***************************************************************************)
MaxNameLen == 3

\* a character outside ASCII (U+00E9), named like Backtick
EAcute == "U+00E9"

\* characters of ids and titles: letters of both cases, a digit, the two
\* separators, white space, a symbol and a non-ASCII letter
NameChars == {"a", "B", "3", "_", "-", " ", "!", EAcute}

ThirdParty == <<"3", "r", "d", " ", "P", "a", "r", "t", "y", "!">>

NameTexts == SeqsUpTo(NameChars, MaxNameLen) \cup {ThirdParty}

\* characters of titles and descriptions: the three that
\* escapeTemplateString looks for, two that are special in JSX text, a letter
TitleChars == {"\\", Backtick, "$", "{", "<", "a"}

TitleTexts == SeqsUpTo(TitleChars, MaxStrLen)

SourceForms ==
    {FormDefinition(Str(i), Str(<<"a">>), Undefined, <<>>) : i \in NameTexts}
    \cup {FormDefinition(Str(<<>>), Str(ti), Undefined, <<>>) :
             ti \in NameTexts \cup TitleTexts}
    \cup {FormDefinition(Str(<<"a">>), Str(<<"a">>), Str(d), <<>>) : d \in TitleTexts}

SourceInit ==
    /\ StudioIdle
    /\ ToastIdle
    /\ pin \in SourceForms
    /\ pout = Pending
    /\ gvalues = <<>>
    /\ delivered = Null
    /\ RendererIdle
    /\ vfield = Undefined
    /\ vvalue = Undefined
    /\ vresult = Pending

SourceNext == outputs

SourceSpec == SourceInit /\ [][SourceNext]_vars

(***************************************************************************)
(* Claims about the generated source                                       *)
(***************************************************************************)
\* the text the identifier is derived from: the id, else the title
NameSource(f) ==
    IF f.id.s # <<>> THEN f.id.s ELSE f.title.s

\* the maximal runs of letters and digits of a text, each with its first
\* character in upper case, concatenated
RECURSIVE CapitalizedWords(_, _)
CapitalizedWords(text, atStart) ==
    IF text = <<>> THEN <<>>
    ELSE IF IsLetter(Head(text)) \/ IsDigit(Head(text))
         THEN <<IF atStart THEN toUpperCase(Head(text)) ELSE Head(text)>>
              \o CapitalizedWords(Tail(text), FALSE)
         ELSE CapitalizedWords(Tail(text), TRUE)

IsIdentifier(n) ==
    /\ Len(n) > 0
    /\ IsLetter(n[1]) \/ n[1] = "_"
    /\ \A i \in 1..Len(n) : IsLetter(n[i]) \/ IsDigit(n[i]) \/ n[i] = "_"

\* C18: for every form id and title (empty, digit-leading, symbol-only or
\* non-ASCII text included) the emitted component identifier is non-empty,
\* starts with a letter or underscore and contains only letters, digits and
\* underscores; it is the capitalized-word concatenation of the id (else the
\* title), prefixed with "Form" when that does not start with a letter or
\* underscore, and "GeneratedForm" when nothing usable remains.
C18_SafeComponentName ==
    SchemaDone =>
        LET name == pout.reactTs.componentName
            words == CapitalizedWords(NameSource(pin), TRUE)
        IN /\ IsIdentifier(name)
           /\ name = (IF words = <<>> THEN GeneratedForm
                      ELSE IF IsLetter(words[1]) \/ words[1] = "_" THEN words
                      ELSE <<"F", "o", "r", "m">> \o words)

\* witness: the title "3rd Party!" of a form without id gives Form3rdParty
C18_Witness ==
    /\ SchemaDone
    /\ pin.id = Str(<<>>)
    /\ pin.title = Str(ThirdParty)
    /\ pout.reactTs.componentName = <<"F", "o", "r", "m", "3", "r", "d", "P", "a", "r", "t", "y">>

\* witness of the fallback: an id of separators and symbols only
C18_WitnessFallback ==
    /\ SchemaDone
    /\ pin.id = Str(<<"_", "!", "-">>)
    /\ pout.reactTs.componentName = GeneratedForm

\* JSX text, the position between the tags of a <div> where the generated
\* source holds the title and the description: { opens an expression that
\* is evaluated, < opens an element, } and > are syntax errors, every other
\* character (a backslash too) is displayed as it stands
jsxText(s) ==
    LET special == {i \in 1..Len(s) : s[i] \in {"{", "}", "<", ">"}} IN
    IF special = {} THEN [kind |-> "text", s |-> s]
    ELSE LET first == CHOOSE i \in special : \A j \in special : i <= j IN
         CASE s[first] = "{" -> [kind |-> "expression"]
           [] s[first] = "<" -> [kind |-> "element"]
           [] OTHER -> [kind |-> "syntax error"]

\* C19: the title and description texts are escaped for the position in
\* which they are embedded in the generated source, so that no content can
\* terminate that position, break the syntax or be evaluated as code, and
\* the generated component displays the original text unchanged.
C19_TextEmbeddedSafely ==
    SchemaDone =>
        /\ jsxText(pout.reactTs.title) = [kind |-> "text", s |-> pin.title.s]
        /\ Truthy(pin.description) =>
               jsxText(pout.reactTs.description.s) = [kind |-> "text", s |-> pin.description.s]

\* C20: the generated control mirrors the schema's constraints: for every
\* field whose rules hold only keys of its own type, the control carries a
\* constraint attribute exactly when the schema property carries the
\* corresponding keyword (minLength-minLength, maxLength-maxLength,
\* pattern-pattern, min-minimum, max-maximum, step 1-type integer), with
\* the same value.
C20_ControlMirrorsSchema ==
    SchemaDone =>
        \A i \in 1..Len(pin.fields) :
            LET control == pout.reactTs.controls[i]
                prop == pout.schema.properties[pin.fields[i].name]
            IN /\ control.minLength = prop.minLength
               /\ control.maxLength = prop.maxLength
               /\ control.pattern = prop.pattern
               /\ control.min = prop.minimum
               /\ control.max = prop.maximum
               /\ control.step = Whole(1) <=> prop.type = "integer"

(***************************************************************************)
(* FieldRow (FormRenderer.tsx): the control the live renderer shows        *)
(***************************************************************************)
\* the element, its type attribute ("" when the element has none) and, for
\* a select, the options it lists (Undefined otherwise)
FieldRow(field) ==
    CASE field.type = "textarea" -> [tag |-> "textarea", type |-> "", options |-> Undefined]
      [] field.type = "select" ->
            LET rules == field.rules
                options == IF ~IsNullish(rules) /\ Get(rules, "options").t = "array"
                           THEN Get(rules, "options") ELSE Arr(<<>>)
            IN [tag |-> "select", type |-> "", options |-> options]
      [] field.type = "checkbox" ->
            [tag |-> "input", type |-> "checkbox", options |-> Undefined]
      [] OTHER ->
            LET inputType == IF field.type = "email" THEN "email"
                             ELSE IF field.type = "number" THEN "number"
                             ELSE IF field.type = "date" THEN "date"
                             ELSE "text"
            IN [tag |-> "input", type |-> inputType, options |-> Undefined]

\* C21: for every field type the generated component renders the same
\* control kind as the live renderer: textarea, select with options,
\* checkbox, or an input of type email/number/date/text; for an
\* unrecognized field type both render an input of type "text".
C21_SameControlKind ==
    SchemaDone =>
        \A i \in 1..Len(pin.fields) :
            LET control == pout.reactTs.controls[i]
                row == FieldRow(pin.fields[i])
            IN /\ control.tag = row.tag
               /\ control.type = row.type
               /\ control.options = row.options
               /\ pin.fields[i].type \notin FieldTypes =>
                      control.tag = "input" /\ control.type = "text"

\* the part of C21 that holds: the seven types of FieldType
C21_KnownTypes ==
    SchemaDone =>
        \A i \in 1..Len(pin.fields) :
            pin.fields[i].type \in FieldTypes =>
                LET control == pout.reactTs.controls[i]
                    row == FieldRow(pin.fields[i])
                IN control.tag = row.tag /\ control.type = row.type
                   /\ control.options = row.options

\* C22: the default-values table embedded in the generated source has
\* exactly one entry per field name, false for checkbox fields and "" for
\* every other type, and equals the defaults the live renderer seeds with
\* buildDefaultValues for the same form; the embedded field list equals
\* form.fields.
C22_EmbeddedSnapshot ==
    SchemaDone =>
        /\ DOMAIN pout.reactTs.DEFAULT_VALUES = Names(pin.fields)
        /\ \A i \in 1..Len(pin.fields) :
              pout.reactTs.DEFAULT_VALUES[pin.fields[i].name] =
                  (IF pin.fields[i].type = "checkbox" THEN Bool(FALSE) ELSE Str(<<>>))
        /\ pout.reactTs.DEFAULT_VALUES = buildDefaultValues(pin.fields)
        /\ pout.reactTs.FIELDS = pin.fields

\* witness: a checkbox field and a select field with options, embedded with
\* the defaults false and ""
C22_Witness ==
    /\ SchemaDone
    /\ Len(pin.fields) = 2
    /\ pin.fields[1].type = "checkbox"
    /\ pin.fields[2].type = "select"
    /\ pin.fields[2].rules = RulesWithOptions(Undefined, Undefined, Undefined, Undefined,
                                              Undefined, Undefined, Arr(<<OptA, OptB>>))
    /\ pout.reactTs.DEFAULT_VALUES = [g |-> Bool(FALSE), f |-> Str(<<>>)]
    /\ pout.reactTs.FIELDS = pin.fields

(***************************************************************************)
(* DeterminismSpec: the export page is opened several times, on the same   *)
(* or on another stored form; last.calls logs the outputs of earlier visits *)
(***************************************************************************)
MaxCalls == 3

\* a few stored forms that differ in title, fields, required and rules
DeterminismForms ==
    {FormDefinition(Str(<<"a">>), Str(ti), Undefined, fs) :
        ti \in {<<>>, <<"a">>},
        fs \in {<<>>,
                <<Field("f", "Label", "text", TRUE,
                        RulesWithOptions(Whole(1), Undefined, Str(<<"a">>), Undefined,
                                         Undefined, Undefined, Undefined))>>,
                <<Field("f", "Label", "select", FALSE,
                        RulesWithOptions(Undefined, Undefined, Undefined, Undefined,
                                         Undefined, Undefined, Arr(<<OptA, OptB>>))),
                  Field("g", "G", "checkbox", TRUE, Undefined)>>,
                <<Field("g", "G", "checkbox", TRUE, Undefined),
                  Field("f", "Label", "number", TRUE,
                        RulesWithOptions(Undefined, Undefined, Undefined, Bool(TRUE),
                                         Whole(0), Whole(MaxRule), Undefined))>>}}

DeterminismInit ==
    /\ StudioIdle
    /\ ToastIdle
    /\ pin \in DeterminismForms
    /\ pout = Pending
    /\ last = [op |-> "export", calls |-> <<>>]
    /\ gvalues = <<>>
    /\ delivered = Null
    /\ form = <<>>
    /\ values = <<>>
    /\ errors = <<>>
    /\ submitted = Null
    /\ isSubmitted = FALSE
    /\ vfield = Undefined
    /\ vvalue = Undefined
    /\ vresult = Pending

\* the export page is opened again: useState reads the stored form, the
\* outputs of the visit that ends are kept in the log
ExportPage ==
    /\ pout # Pending
    /\ Len(last.calls) < MaxCalls - 1
    /\ pin' \in DeterminismForms
    /\ pout' = Pending
    /\ last' = [last EXCEPT !.calls = Append(@, [form |-> pin, outputs |-> pout])]
    /\ UNCHANGED <<vfield, vvalue, vresult, form, values, errors, submitted, isSubmitted,
                   gvalues, delivered,
                   studioVars, toastVars>>

DeterminismNext == outputs \/ ExportPage

DeterminismSpec == DeterminismInit /\ [][DeterminismNext]_vars

MaxOps == 3

Spread_KeepsLeft(a, b) ==
    [k \in DOMAIN a \cup DOMAIN b |-> IF k \in DOMAIN a THEN a[k] ELSE b[k]]

\* { ...a, ...b }
Spread(a, b) ==
    [k \in DOMAIN a \cup DOMAIN b |-> IF k \in DOMAIN b THEN b[k] ELSE a[k]]

\* the bundled template basic-contact.json
starter ==
    [kind |-> "form", id |-> Str(<<"a">>), title |-> Str(<<"a">>), description |-> Str(<<>>),
     fields |-> <<[id |-> Str(<<"s", "1">>), name |-> "name", label |-> "Name", type |-> "text",
                   required |-> TRUE, placeholder |-> "", rules |-> Undefined],
                  [id |-> Str(<<"s", "2">>), name |-> "email", label |-> "Email", type |-> "email",
                   required |-> TRUE, placeholder |-> "", rules |-> Undefined]>>]

\* what localStorage can hold under STORAGE_KEY when the page is opened: no
\* window at all (server render), no item, the empty text, a text that is
\* not JSON, JSON of another shape, and definitions saved earlier
StoredTexts ==
    {[text |-> "nowindow"], Null, [text |-> "empty"], [text |-> "corrupt"],
     [text |-> "json", value |-> Null],
     [text |-> "json", value |-> [kind |-> "other", t |-> "object"]],
     [text |-> "json", value |-> Spread(starter, [fields |-> <<>>, updatedAtISO |-> 0])],
     [text |-> "json",
      value |-> Spread(starter,
                  [updatedAtISO |-> 0,
                   fields |-> <<[id |-> Str(<<"f", "a">>), name |-> "field", label |-> "New field",
                                 type |-> "text", required |-> FALSE, placeholder |-> "",
                                 rules |-> Undefined],
                                [id |-> Str(<<"f", "c">>), name |-> "field1", label |-> "New field",
                                 type |-> "number", required |-> FALSE, placeholder |-> "",
                                 rules |-> Undefined]>>])]}

\* loadFormFromStorage(): null without a window, without an item, for the
\* empty text and when JSON.parse throws; otherwise whatever JSON.parse
\* returns, cast to FormDefinition
loadFormFromStorage(raw) ==
    CASE raw = Null -> Null
      [] raw.text \in {"nowindow", "empty", "corrupt"} -> Null
      [] OTHER -> raw.value

\* saveFormToStorage(form): the text JSON.stringify(form) writes, kept as the
\* value JSON.parse reads back from it (a key holding undefined is not
\* written, a number that is not finite is written as null)
saveFormToStorage(next) ==
    [text |-> "json",
     value |-> [next EXCEPT !.fields = [k \in DOMAIN next.fields |->
                                           fieldsLiteral(next.fields[k])]]]

\* toast(input) of use-toast.ts: the item is put in front, the five newest
\* are kept, and a timeout is scheduled when the duration is positive
toast(id, duration) ==
    /\ store' = SubSeq(<<[id |-> id, duration |-> duration]>> \o store, 1,
                       IF Len(store) + 1 < 5 THEN Len(store) + 1 ELSE 5)
    /\ storeTimers' = IF duration > 0 THEN storeTimers \cup {id} ELSE storeTimers

\* the page rendered: form.fields.map throws on a value without fields
Rendered ==
    /\ storage # [text |-> "nowindow"]
    /\ sform # Null
    /\ "fields" \in DOMAIN sform
    /\ clock < MaxOps

StudioInit ==
    /\ storage \in StoredTexts
    /\ clock = 0
    /\ LET saved == loadFormFromStorage(storage)
       IN /\ sform = IF saved # Null THEN saved ELSE Spread(starter, [updatedAtISO |-> clock])
          /\ expandedFieldId =
                LET shown == IF saved # Null THEN saved ELSE starter
                IN IF "fields" \in DOMAIN shown /\ Len(shown.fields) > 0
                   THEN shown.fields[1].id
                   ELSE Null
    /\ sop = [op |-> "none"]
    /\ ToastIdle
    /\ RendererIdle
    /\ ProjectorIdle
    /\ vfield = Undefined
    /\ vvalue = Undefined
    /\ vresult = Pending

\* history: the handler that ran last, its arguments, and what it started from
StudioHistory(op, id, arg) ==
    [op |-> op, id |-> id, arg |-> arg, before |-> sform, stored |-> storage,
     expanded |-> expandedFieldId,
     prior |-> [k \in DOMAIN sop \ {"prior"} |-> sop[k]]]

\* persist(next): saveFormToStorage(next); setForm(next)
persist(next) ==
    /\ storage' = saveFormToStorage(next)
    /\ sform' = next

addField_NoLoop ==
    /\ Rendered
    \* the type picked in the menu; makeId("f"), where Math.random() may
    \* repeat; makeId() of use-toast.ts (no handler of the page reads the store)
    /\ \E type \in {"text", "email"}, id \in {Str(<<"f", "a">>), Str(<<"f", "b">>)},
          tid \in {"t_a"} :
          LET baseName == IF type = "email" THEN "email" ELSE "field"
              fieldNameSet == {sform.fields[k].name : k \in DOMAIN sform.fields}
              name == IF baseName \in fieldNameSet THEN baseName \o ToString(1) ELSE baseName
              newField == [id |-> id, name |-> name, label |-> "New field", type |-> type,
                           required |-> FALSE, placeholder |-> "", rules |-> Undefined]
          IN /\ persist(Spread(sform, [fields |-> Append(sform.fields, newField),
                                       updatedAtISO |-> clock + 1]))
             /\ expandedFieldId' = newField.id
             /\ toast(tid, 3200)
             /\ sop' = StudioHistory("addField", id, type)
    /\ clock' = clock + 1
    /\ UNCHANGED <<vfield, vvalue, vresult, form, values, errors, submitted, isSubmitted,
                   last, projVars, toasts, timers, idCounter>>

addField ==
    /\ Rendered
    \* the type picked in the menu; makeId("f"), where Math.random() may
    \* repeat; makeId() of use-toast.ts (no handler of the page reads the store)
    /\ \E type \in {"text", "email"}, id \in {Str(<<"f", "a">>), Str(<<"f", "b">>)},
          tid \in {"t_a"} :
          LET baseName == IF type = "email" THEN "email" ELSE "field"
              fieldNameSet == {sform.fields[k].name : k \in DOMAIN sform.fields}
              \* let name = baseName; let i = 1; while (fieldNameSet.has(name)) ...
              RECURSIVE while(_, _)
              while(name, i) ==
                  IF name \in fieldNameSet THEN while(baseName \o ToString(i), i + 1)
                  ELSE name
              name == while(baseName, 1)
              newField == [id |-> id, name |-> name, label |-> "New field", type |-> type,
                           required |-> FALSE, placeholder |-> "", rules |-> Undefined]
          IN /\ persist(Spread(sform, [fields |-> Append(sform.fields, newField),
                                       updatedAtISO |-> clock + 1]))
             /\ expandedFieldId' = newField.id
             /\ toast(tid, 3200)
             /\ sop' = StudioHistory("addField", id, type)
    /\ clock' = clock + 1
    /\ UNCHANGED <<vfield, vvalue, vresult, form, values, errors, submitted, isSubmitted,
                   last, projVars, toasts, timers, idCounter>>

\* the patches FieldProperties and AdvancedRules hand to onPatch
Patches(field) ==
    LET InfinityText == <<"I", "n", "f", "i", "n", "i", "t", "y">>
        \* Number("Infinity"): a number that is neither NaN nor finite
        Infinity == [t |-> "number", nan |-> FALSE, inf |-> TRUE]
        toNumberOrUndefined(value) ==
            IF TrimRight(TrimLeft(value)) = <<>> THEN Undefined
            ELSE LET n == IF value = InfinityText THEN Infinity ELSE StringToNumber(value)
                 IN IF n.nan THEN Undefined ELSE n
    IN {[name |-> "email"], [name |-> "9"]}
       \cup {[rules |-> Spread(IF field.rules = Undefined THEN EmptyRules ELSE field.rules,
                               [minLength |-> toNumberOrUndefined(text)])] :
             text \in {<<"1">>, InfinityText}}

updateField ==
    /\ Rendered
    /\ \E i \in DOMAIN sform.fields, tid \in {"t_a"} :
          \E patch \in Patches(sform.fields[i]) :
             LET id == sform.fields[i].id
                 \* /^[A-Za-z][A-Za-z0-9_]*$/ on the names that occur
                 isValidFieldName(name) ==
                     name \in {"name", "email", "field", "field1", "field2", "email1"}
                 prev == sform.fields[CHOOSE k \in DOMAIN sform.fields :
                                         /\ sform.fields[k].id = id
                                         /\ \A j \in 1..(k - 1) : sform.fields[j].id # id]
                 nextFields == [k \in DOMAIN sform.fields |->
                                   IF sform.fields[k].id = id
                                   THEN Spread(sform.fields[k], patch)
                                   ELSE sform.fields[k]]
                 wasValid == isValidFieldName(prev.name)
                 isValid == isValidFieldName(Spread(prev, patch).name)
             IN /\ persist(Spread(sform, [fields |-> nextFields, updatedAtISO |-> clock + 1]))
                /\ IF "name" \in DOMAIN patch /\ wasValid /\ ~isValid
                   THEN toast(tid, 4500)
                   ELSE tid = "t_a" /\ UNCHANGED <<store, storeTimers>>
                /\ sop' = StudioHistory("updateField", id, patch)
    /\ clock' = clock + 1
    /\ UNCHANGED <<vfield, vvalue, vresult, form, values, errors, submitted, isSubmitted,
                   last, projVars, expandedFieldId, toasts, timers, idCounter>>

deleteField_KeepsExpanded ==
    /\ Rendered
    /\ \E i \in DOMAIN sform.fields, tid \in {"t_a"} :
          LET id == sform.fields[i].id
              nextFields == SelectSeq(sform.fields, LAMBDA f : f.id # id)
          IN /\ persist(Spread(sform, [fields |-> nextFields, updatedAtISO |-> clock + 1]))
             /\ expandedFieldId' = expandedFieldId
             /\ toast(tid, 3200)
             /\ sop' = StudioHistory("deleteField", id, Null)
    /\ clock' = clock + 1
    /\ UNCHANGED <<vfield, vvalue, vresult, form, values, errors, submitted, isSubmitted,
                   last, projVars, toasts, timers, idCounter>>
deleteField ==
    /\ Rendered
    /\ \E i \in DOMAIN sform.fields, tid \in {"t_a"} :
          LET id == sform.fields[i].id
              nextFields == SelectSeq(sform.fields, LAMBDA f : f.id # id)
          IN /\ persist(Spread(sform, [fields |-> nextFields, updatedAtISO |-> clock + 1]))
             /\ expandedFieldId' = IF expandedFieldId = id
                                   THEN IF Len(nextFields) > 0 THEN nextFields[1].id ELSE Null
                                   ELSE expandedFieldId
             /\ toast(tid, 3200)
             /\ sop' = StudioHistory("deleteField", id, Null)
    /\ clock' = clock + 1
    /\ UNCHANGED <<vfield, vvalue, vresult, form, values, errors, submitted, isSubmitted,
                   last, projVars, toasts, timers, idCounter>>

moveField ==
    /\ Rendered
    /\ \E id \in {sform.fields[k].id : k \in DOMAIN sform.fields} \cup {Str(<<"f", "z">>)},
          direction \in {"up", "down"} :
          LET found == {k \in DOMAIN sform.fields : sform.fields[k].id = id}
              idx == IF found = {} THEN -1
                     ELSE (CHOOSE k \in found : \A j \in found : k <= j) - 1
              target == IF direction = "up" THEN idx - 1 ELSE idx + 1
              next == [k \in DOMAIN sform.fields |->
                          IF k = idx + 1 THEN sform.fields[target + 1]
                          ELSE IF k = target + 1 THEN sform.fields[idx + 1]
                          ELSE sform.fields[k]]
          IN /\ IF idx = -1 \/ target < 0 \/ target >= Len(sform.fields)
                THEN UNCHANGED <<sform, storage>>
                ELSE persist(Spread(sform, [fields |-> next, updatedAtISO |-> clock + 1]))
             /\ sop' = StudioHistory("moveField", id, direction)
    /\ clock' = clock + 1
    /\ UNCHANGED <<vfield, vvalue, vresult, form, values, errors, submitted, isSubmitted,
                   last, projVars, expandedFieldId, toastVars>>

resetToTemplate ==
    /\ Rendered
    /\ \E tid \in {"t_a"} :
          LET next == Spread(starter, [updatedAtISO |-> clock + 1])
          IN /\ persist(next)
             /\ expandedFieldId' = IF Len(next.fields) > 0 THEN next.fields[1].id ELSE Null
             /\ toast(tid, 3200)
             /\ sop' = StudioHistory("resetToTemplate", Null, Null)
    /\ clock' = clock + 1
    /\ UNCHANGED <<vfield, vvalue, vresult, form, values, errors, submitted, isSubmitted,
                   last, projVars, toasts, timers, idCounter>>

\* onToggle of a FieldAccordion row
onToggle ==
    /\ Rendered
    /\ \E i \in DOMAIN sform.fields :
          LET id == sform.fields[i].id
          IN /\ expandedFieldId' = IF expandedFieldId = id THEN Null ELSE id
             /\ sop' = StudioHistory("onToggle", id, Null)
    /\ clock' = clock + 1
    /\ UNCHANGED <<vfield, vvalue, vresult, form, values, errors, submitted, isSubmitted,
                   last, projVars, sform, storage, toastVars>>

\* onChange of the title and of the description input
onChange ==
    /\ Rendered
    /\ \E key \in {"title", "description"} :
          /\ persist(Spread(sform, IF key = "title"
                                   THEN [title |-> Str(<<"b">>), updatedAtISO |-> clock + 1]
                                   ELSE [description |-> Str(<<"b">>),
                                         updatedAtISO |-> clock + 1]))
          /\ sop' = StudioHistory("onChange", Null, key)
    /\ clock' = clock + 1
    /\ UNCHANGED <<vfield, vvalue, vresult, form, values, errors, submitted, isSubmitted,
                   last, projVars, expandedFieldId, toastVars>>

StudioNext ==
    \/ addField
    \/ updateField
    \/ deleteField
    \/ moveField
    \/ resetToTemplate
    \/ onToggle
    \/ onChange

StudioSpec == StudioInit /\ [][StudioNext]_vars

(***************************************************************************)
(* Claims about the authoring layer                                        *)
(***************************************************************************)
\* the page holds a definition with a field list
HasFields == sform # Null /\ "fields" \in DOMAIN sform

\* C24: starting from a form whose field names are unique, after any
\* sequence of authoring operations (addField, updateField including a
\* rename, deleteField, moveField, title/description edit, resetToTemplate)
\* no two fields of the form share the same name.
C24_UniqueNames ==
    HasFields =>
        \A i, j \in DOMAIN sform.fields :
            i # j => sform.fields[i].name # sform.fields[j].name

\* the names of a field list
namesOf(fields) == {fields[k].name : k \in DOMAIN fields}

\* the base, or the base with the first numeric suffix 1, 2, ... that is free
FirstFreeName(taken, base) ==
    IF base \notin taken THEN base
    ELSE LET n == CHOOSE n \in 1..(Cardinality(taken) + 1) :
                     /\ base \o ToString(n) \notin taken
                     /\ \A m \in 1..(n - 1) : base \o ToString(m) \in taken
         IN base \o ToString(n)

\* C25: addField appends exactly one new field at the end of the list, with
\* a name that no existing field uses (base "email" for email fields and
\* "field" otherwise, taking the base or the first free numeric suffix), and
\* leaves every existing field and their order unchanged, also when addField
\* is invoked several times in a row.
C25_AddFieldAppends ==
    sop.op = "addField" =>
        LET old == sop.before.fields
            new == sform.fields
            added == new[Len(new)]
        IN /\ Len(new) = Len(old) + 1
           /\ SubSeq(new, 1, Len(old)) = old
           /\ added.type = sop.arg
           /\ added.name \notin namesOf(old)
           /\ added.name = FirstFreeName(namesOf(old),
                                         IF sop.arg = "email" THEN "email" ELSE "field")

\* addField ran twice in a row and the second call had to skip two taken names
C25_Witness ==
    /\ sop.op = "addField"
    /\ sop.prior.op = "addField"
    /\ sform.fields[Len(sform.fields)].name = "field2"

\* a value that has the shape of a FormDefinition: an object with a field list
IsFormDefinition(v) == v # Null /\ "kind" \in DOMAIN v /\ v.kind = "form" /\ "fields" \in DOMAIN v

\* C26: loadFormFromStorage never throws and returns either a usable
\* FormDefinition or null (null when not in a browser, when nothing is
\* stored, and when the stored data is corrupt or incompatible), so that
\* the page falls back to the starter template instead of working on
\* malformed data.
C26_UsableOrNull ==
    sop.op = "none" =>
        LET saved == loadFormFromStorage(storage)
        IN /\ saved = Null \/ IsFormDefinition(saved)
           /\ IsFormDefinition(sform)
           /\ saved = Null => sform.fields = starter.fields

\* the cases in which the claim's null is returned
C26_NullCases ==
    sop.op = "none" /\ (storage = Null \/ storage.text # "json")
        => loadFormFromStorage(storage) = Null /\ sform.fields = starter.fields

\* the last handler ran to its persist call
Persisted ==
    /\ sop.op \in {"addField", "updateField", "deleteField", "moveField", "resetToTemplate",
                   "onChange"}
    /\ sop.op = "moveField" => sform # sop.before

\* C27: after every completed authoring operation (add, update, delete,
\* move, title/description edit, reset to template) the definition stored
\* under the storage key equals the in-memory definition that the editor
\* and the live preview show.
C27_StoredEqualsShown ==
    Persisted => loadFormFromStorage(storage) = sform

\* a rule of the in-memory definition holds a number that is not finite
HoldsInfinity ==
    \E k \in DOMAIN sform.fields :
        /\ sform.fields[k].rules # Undefined
        /\ "inf" \in DOMAIN sform.fields[k].rules.minLength

\* as long as every rule number is finite the two copies agree
C27_FiniteRules ==
    Persisted /\ ~HoldsInfinity => loadFormFromStorage(storage) = sform

\* form.fields.findIndex((f) => f.id === id), counted from 1; 0 when absent
IndexOf(fields, id) ==
    IF \E k \in DOMAIN fields : fields[k].id = id
    THEN CHOOSE k \in DOMAIN fields :
            fields[k].id = id /\ \A j \in 1..(k - 1) : fields[j].id # id
    ELSE 0

\* the position moveField(id, direction) aims at, counted from 1
TargetOf(fields, id, direction) ==
    IF direction = "up" THEN IndexOf(fields, id) - 1 ELSE IndexOf(fields, id) + 1

CanMove(fields, id, direction) ==
    /\ IndexOf(fields, id) # 0
    /\ TargetOf(fields, id, direction) \in DOMAIN fields

\* C28: moveField(id, direction): when the field is found and its neighbour
\* index is in bounds, exactly the field and that adjacent neighbour swap
\* positions and all other fields keep their position and content; when the
\* id is unknown or the target index is out of bounds, the definition,
\* including updatedAtISO and the stored copy, is unchanged.  Moving a field
\* up and then down restores the original order.
C28_MoveSwapsNeighbours ==
    sop.op = "moveField" =>
        LET old == sop.before.fields
            new == sform.fields
            idx == IndexOf(old, sop.id)
            target == TargetOf(old, sop.id, sop.arg)
        IN /\ CanMove(old, sop.id, sop.arg) =>
                /\ DOMAIN new = DOMAIN old
                /\ new[target] = old[idx]
                /\ new[idx] = old[target]
                /\ \A k \in DOMAIN old \ {idx, target} : new[k] = old[k]
                /\ [sform EXCEPT !.fields = old, !.updatedAtISO = sop.before.updatedAtISO]
                      = sop.before
           /\ ~CanMove(old, sop.id, sop.arg) =>
                /\ sform = sop.before
                /\ storage = sop.stored
           /\ (/\ sop.arg = "down"
               /\ sop.prior.op = "moveField"
               /\ sop.prior.arg = "up"
               /\ sop.prior.id = sop.id
               /\ CanMove(sop.prior.before.fields, sop.id, "up"))
                 => new = sop.prior.before.fields

\* a field was moved up and then down again
C28_Witness ==
    /\ sop.op = "moveField"
    /\ sop.arg = "down"
    /\ sop.prior.op = "moveField"
    /\ sop.prior.arg = "up"
    /\ sop.prior.id = sop.id
    /\ sop.before.fields # sop.prior.before.fields
    /\ sform.fields = sop.prior.before.fields
    /\ Len(sform.fields) >= 3

\* moveField returned early: for an id that is not in the list, and at an end
C28_WitnessNoMove ==
    /\ sop.op = "moveField"
    /\ ~CanMove(sop.before.fields, sop.id, sop.arg)
    /\ sop.stored # Null

\* the ids of a field list
idsOf(fields) == {fields[k].id : k \in DOMAIN fields}

\* C30: after any sequence of addField, deleteField, moveField, updateField,
\* toggle and resetToTemplate operations, expandedFieldId is either null or
\* the id of a field currently in the form; deleting the expanded field
\* moves the expansion to a remaining field (or null when none remain), and
\* adding a field expands the new field.
C30_ExpandedIsInForm ==
    HasFields =>
        /\ expandedFieldId = Null \/ expandedFieldId \in idsOf(sform.fields)
        /\ sop.op = "deleteField" /\ sop.expanded = sop.id =>
              IF sform.fields = <<>> THEN expandedFieldId = Null
              ELSE expandedFieldId \in idsOf(sform.fields)
        /\ sop.op = "addField" => expandedFieldId = sform.fields[Len(sform.fields)].id

\* the expanded field was deleted and another field remains
C30_Witness ==
    /\ sop.op = "deleteField"
    /\ sop.expanded = sop.id
    /\ sform.fields # <<>>
    /\ expandedFieldId \in idsOf(sform.fields)

\* the last field was deleted while it was expanded
C30_WitnessNoneRemain ==
    /\ sop.op = "deleteField"
    /\ sop.expanded = sop.id
    /\ sform.fields = <<>>
    /\ expandedFieldId = Null

(***************************************************************************)
(* The two toast queues: ToastProvider (components/ui/ToastProvider.tsx),  *)
(* which ToastStack renders, and the module store of use-toast.ts, which   *)
(* the Studio handlers add to                                              *)
(***************************************************************************)
\* toasts added through addToast in one session
MaxToasts == 2

ToastInit ==
    /\ ToastIdle
    /\ StudioIdle
    /\ RendererIdle
    /\ ProjectorIdle
    /\ vfield = Undefined
    /\ vvalue = Undefined
    /\ vresult = Pending

\* addToast(message, type, duration): makeToastId gives an id no earlier
\* toast has (a UUID, or Date.now() joined with the counter)
addToast ==
    /\ idCounter < MaxToasts
    /\ \E duration \in {0, 3000} :
          LET id == idCounter + 1
          IN /\ idCounter' = idCounter + 1
             /\ toasts' = Append(toasts, [id |-> id, duration |-> duration])
             /\ timers' = IF duration > 0 THEN timers \cup {id} ELSE timers
    /\ UNCHANGED <<vfield, vvalue, vresult, form, values, errors, submitted, isSubmitted,
                   last, projVars, studioVars, store, storeTimers>>

removeToast_KeepsAll(id) ==
    toasts' = toasts

\* removeToast(id): setToasts((prev) => prev.filter((t) => t.id !== id))
removeToast(id) ==
    toasts' = SelectSeq(toasts, LAMBDA t : t.id # id)

\* dismiss(id) of use-toast.ts
dismiss(id) ==
    store' = SelectSeq(store, LAMBDA t : t.id # id)

ToastNext ==
    \/ addToast
    \* the dismiss button of a toast that ToastStack shows
    \/ \E k \in DOMAIN toasts :
          /\ removeToast(toasts[k].id)
          /\ UNCHANGED <<vfield, vvalue, vresult, form, values, errors, submitted,
                         isSubmitted, last, projVars, studioVars, timers, idCounter,
                         store, storeTimers>>
    \* the timeout that addToast scheduled fires
    \/ \E id \in timers :
          /\ removeToast(id)
          /\ timers' = timers \ {id}
          /\ UNCHANGED <<vfield, vvalue, vresult, form, values, errors, submitted,
                         isSubmitted, last, projVars, studioVars, idCounter,
                         store, storeTimers>>
    \* toast(input) of use-toast.ts with the default duration: Math.random()
    \* may repeat an id
    \/ \E id \in {"t_a", "t_b"}, duration \in {3200} :
          /\ toast(id, duration)
          /\ UNCHANGED <<vfield, vvalue, vresult, form, values, errors, submitted,
                         isSubmitted, last, projVars, studioVars, toasts, timers, idCounter>>
    \* the dismiss button of a toast of the store
    \/ \E k \in DOMAIN store :
          /\ dismiss(store[k].id)
          /\ UNCHANGED <<vfield, vvalue, vresult, form, values, errors, submitted,
                         isSubmitted, last, projVars, studioVars, toasts, timers, idCounter,
                         storeTimers>>
    \* the timeout that toast() scheduled fires
    \/ \E id \in storeTimers :
          /\ dismiss(id)
          /\ storeTimers' = storeTimers \ {id}
          /\ UNCHANGED <<vfield, vvalue, vresult, form, values, errors, submitted,
                         isSubmitted, last, projVars, studioVars, toasts, timers, idCounter>>

\* a timeout that was scheduled fires
ToastSpec ==
    /\ ToastInit
    /\ [][ToastNext]_vars
    /\ WF_vars(\E id \in timers :
                  /\ removeToast(id)
                  /\ timers' = timers \ {id}
                  /\ UNCHANGED <<vfield, vvalue, vresult, form, values, errors, submitted,
                                 isSubmitted, last, projVars, studioVars, idCounter,
                                 store, storeTimers>>)

(***************************************************************************)
(* Claims about the toast queues                                           *)
(***************************************************************************)
\* how many toasts of a queue carry the id
CountOf(queue, id) == Cardinality({k \in DOMAIN queue : queue[k].id = id})

\* the queue without the toasts that carry the id
Without(queue, id) == SelectSeq(queue, LAMBDA t : t.id # id)

\* some toast of the queue is missing from the queue of the next state
Leaves(queue, next) ==
    \E k \in DOMAIN queue : CountOf(next, queue[k].id) < CountOf(queue, queue[k].id)

\* the step removes from the queue exactly the toasts of one id
RemovesById(queue, next) ==
    \E k \in DOMAIN queue : next = Without(queue, queue[k].id)

====
